---- MODULE Spec2Model ----
(***************************************************************************)
(* Model of the Yedit document engine embedded in                          *)
(* roles/lib_openshift/library/oc_adm_ca_server_cert.py: the key (path)    *)
(* parser, the tree navigation helpers (get_entry / add_entry /            *)
(* remove_entry), the store operations (get / put / update / append / pop  *)
(* / delete / exists), the batch loop (process_edits), the temp-file write *)
(* path (_write), the file operations (load / write), the module entry     *)
(* point Yedit.run_ansible, and the certificate module built on top of it  *)
(* (CAServerCert.exists / create / run_ansible).                           *)
(*                                                                         *)
(* Strings are sequences of one-character strings, so that the regular     *)
(* expressions of the key parser can be evaluated character by character.  *)
(* Python values are tagged records [t |-> kind, v |-> payload].           *)
(***************************************************************************)
EXTENDS Integers, Sequences, FiniteSets, TLC

VARIABLES
    key, sep, kpc, kvalid, ksteps,      \* key parser: inputs, position, results
    yaml_dict, last, held, nops,        \* document store
    dir, inodes, locks, wr, seen,       \* file system, writers of _write, reader
    edits, epos, results, curobj, bexc, \* process_edits: batch, loop position
    files, clock, params, rpc, resp,    \* run_ansible: files, request, response
    fslog                               \* what was done to the files, in order

kvars == <<key, sep, kpc, kvalid, ksteps>>
svars == <<yaml_dict, last, held, nops>>
wvars == <<dir, inodes, locks, wr, seen>>
bvars == <<edits, epos, results, curobj, bexc>>
rvars == <<files, clock, params, rpc, resp, fslog>>
vars == <<kvars, svars, wvars, bvars, rvars>>

(***************************************************************************)
(* Characters                                                              *)
(***************************************************************************)
Digits == {"0", "1", "2", "3", "4", "5", "6", "7", "8", "9"}

Lower == {"a", "b", "c", "d", "e", "f", "g", "h", "i", "j", "k", "l", "m",
          "n", "o", "p", "q", "r", "s", "t", "u", "v", "w", "x", "y", "z"}

Upper == {"A", "B", "C", "D", "E", "F", "G", "H", "I", "J", "K", "L", "M",
          "N", "O", "P", "Q", "R", "S", "T", "U", "V", "W", "X", "Y", "Z"}

AlNum == Digits \cup Lower \cup Upper

\* Yedit.com_sep
com_sep == {".", "#", "|", ":"}

DigitVal(c) ==
    CASE c = "0" -> 0 [] c = "1" -> 1 [] c = "2" -> 2 [] c = "3" -> 3
      [] c = "4" -> 4 [] c = "5" -> 5 [] c = "6" -> 6 [] c = "7" -> 7
      [] c = "8" -> 8 [] c = "9" -> 9

RECURSIVE DecVal(_)
DecVal(ds) ==
    IF ds = <<>> THEN 0
    ELSE 10 * DecVal(SubSeq(ds, 1, Len(ds) - 1)) + DigitVal(ds[Len(ds)])

\* int(arr_ind) for a string matched by -?\d+
ToInt(s) == IF s[1] = "-" THEN 0 - DecVal(Tail(s)) ELSE DecVal(s)

(***************************************************************************)
(* Key parser: re_key / re_valid_key, parse_key, valid_key                 *)
(***************************************************************************)
\* One past the longest run of characters of class cls that starts at i.
RECURSIVE RunEnd(_, _, _)
RunEnd(s, i, cls) ==
    IF i <= Len(s) /\ s[i] \in cls THEN RunEnd(s, i + 1, cls) ELSE i

\* One past a match of \[-?\d+\] that starts at i, or 0 when there is none.
IndexEnd(s, i) ==
    IF i <= Len(s) /\ s[i] = "["
    THEN LET j == IF i + 1 <= Len(s) /\ s[i + 1] = "-" THEN i + 2 ELSE i + 1
             k == RunEnd(s, j, Digits)
         IN  IF k > j /\ k <= Len(s) /\ s[k] = "]" THEN k + 1 ELSE 0
    ELSE 0

\* The character class of re_key after .format(''.join(common_separators)):
\* [0-9a-zA-Z{}/_-] with {} replaced by the separators other than sep.
ReKeyClass(sp) == AlNum \cup (com_sep \ {sp}) \cup {"/", "_", "-"}

\* The character class of re_valid_key. The pattern holds %s, which
\* str.format leaves alone, so the class is [0-9a-zA-Z%s/_-] for every sep.
ReValidKeyClass(sp) == AlNum \cup {"%", "s", "/", "_", "-"}

\* re.findall(re_key, key): leftmost non-overlapping matches, scanning from i;
\* each match is the pair (arr_ind, dict_key) of the two groups.
RECURSIVE FindAll(_, _, _)
FindAll(s, i, cls) ==
    IF i > Len(s) THEN <<>>
    ELSE LET e == IndexEnd(s, i)
             r == RunEnd(s, i, cls)
         IN  IF e # 0
             THEN <<[ai |-> SubSeq(s, i + 1, e - 2), dk |-> <<>>]>>
                      \o FindAll(s, e, cls)
             ELSE IF r > i
             THEN <<[ai |-> <<>>, dk |-> SubSeq(s, i, r - 1)]>>
                      \o FindAll(s, r, cls)
             ELSE FindAll(s, i + 1, cls)

\* Variant of parse_key: the separator argument is not used.
ParseKeyDotOnly(k, sp) == FindAll(k, 1, ReKeyClass("."))

parse_key(k, sp) == FindAll(k, 1, ReKeyClass(sp))

\* $ of the pattern: the end of the string, or just before a final newline.
AtEnd(s, i) == i = Len(s) + 1 \/ (i = Len(s) /\ s[i] = "\n")

\* The ends (exclusive) of the matches of one token at i: a bracketed index,
\* or any non-empty prefix of a run of class characters (backtracking).
TokenEnds(s, i, cls) ==
    (IF IndexEnd(s, i) # 0 THEN {IndexEnd(s, i)} ELSE {})
        \cup ((i + 1) .. RunEnd(s, i, cls))

\* Whether (token .?)+$ matches s from position i on.
RECURSIVE MatchTokens(_, _, _)
MatchTokens(s, i, cls) ==
    \E j \in TokenEnds(s, i, cls) :
        \E k \in {j} \cup (IF j <= Len(s) /\ s[j] # "\n" THEN {j + 1} ELSE {}) :
            AtEnd(s, k) \/ MatchTokens(s, k, cls)

valid_key(k, sp) == MatchTokens(k, 1, ReValidKeyClass(sp))

(***************************************************************************)
(* Bounds and inputs of the key parser                                     *)
(***************************************************************************)
MaxKeyLen == 3

\* The characters the enumerated keys are built from.
KeyAlphabet == {"a", "b", "0", "-", "[", "]", ".", "#", "|", ":", "%", " "}

RECURSIVE StringsUpTo(_)
StringsUpTo(n) ==
    IF n = 0 THEN {<<>>}
    ELSE LET S == StringsUpTo(n - 1)
         IN  S \cup {Append(s, c) : s \in S, c \in KeyAlphabet}

\* Keys named by the documentation of the path grammar.
ExampleKeys ==
    { <<"a", ".", "b", "[", "0", "]", ".", "c">>,
      <<"a", ".", ".", "b">>,
      <<"a", "#", "b", "[", "-", "1", "]">>,
      <<"a", "%", "b", ".", "c">>,
      <<"a", "b", ".", "c", "\n">> }

Keys == StringsUpTo(MaxKeyLen) \cup ExampleKeys

(***************************************************************************)
(* The key parser as a state machine: a key and a separator are given,     *)
(* valid_key is called, then parse_key.                                    *)
(***************************************************************************)
KeyIdle ==
    /\ key = <<>> /\ sep = "." /\ kpc = "idle"
    /\ kvalid = FALSE /\ ksteps = <<>>

KeyInit ==
    /\ key \in Keys
    /\ sep \in com_sep
    /\ kpc = "start"
    /\ kvalid = FALSE
    /\ ksteps = <<>>

DoValidKey ==
    /\ kpc = "start"
    /\ kvalid' = valid_key(key, sep)
    /\ kpc' = "validated"
    /\ UNCHANGED <<key, sep, ksteps, svars, rvars, wvars, bvars>>

DoParseKey ==
    /\ kpc = "validated"
    /\ ksteps' = parse_key(key, sep)
    /\ kpc' = "parsed"
    /\ UNCHANGED <<key, sep, kvalid, svars, rvars, wvars, bvars>>

(***************************************************************************)
(* Python values. None is Null; a str is Str of a character sequence; a    *)
(* dict is a function from its keys (character sequences) to values; a     *)
(* list is a sequence of values.                                           *)
(***************************************************************************)
Null == [t |-> "null", v |-> 0]

Bool(b) == [t |-> "bool", v |-> b]

Num(i) == [t |-> "int", v |-> i]

Str(s) == [t |-> "str", v |-> s]

List(s) == [t |-> "list", v |-> s]

Dict(f) == [t |-> "dict", v |-> f]

EmptyDict == Dict(<<>>)

EmptyList == List(<<>>)

IsDict(x) == x.t = "dict"

IsList(x) == x.t = "list"

\* bool(x)
Truthy(x) ==
    CASE x.t = "null" -> FALSE
      [] x.t = "bool" -> x.v
      [] x.t = "int"  -> x.v # 0
      [] x.t = "str"  -> x.v # <<>>
      [] x.t = "list" -> x.v # <<>>
      [] x.t = "dict" -> DOMAIN x.v # {}

\* Python's == makes True equal to 1 and False to 0, at every depth.
RECURSIVE Norm(_)
Norm(x) ==
    CASE x.t = "bool" -> Num(IF x.v THEN 1 ELSE 0)
      [] x.t = "list" -> List([i \in 1..Len(x.v) |-> Norm(x.v[i])])
      [] x.t = "dict" -> Dict([k \in DOMAIN x.v |-> Norm(x.v[k])])
      [] OTHER        -> x

PyEq(a, b) == Norm(a) = Norm(b)

\* data.get(k)
DictGet(d, k) == IF k \in DOMAIN d.v THEN d.v[k] ELSE Null

\* d[k] = x
DictSet(d, k, x) ==
    Dict([j \in DOMAIN d.v \cup {k} |-> IF j = k THEN x ELSE d.v[j]])

\* del d[k], for k a key of d
DictDel(d, k) == Dict([j \in DOMAIN d.v \ {k} |-> d.v[j]])

\* Whether l[n] exists: -len <= n < len.
InRange(l, n) == 0 - Len(l.v) <= n /\ n < Len(l.v)

\* The position in 1..len of the element l[n], for n in range.
Pos(l, n) == IF n < 0 THEN Len(l.v) + n + 1 ELSE n + 1

ListSet(l, n, x) == List([l.v EXCEPT ![Pos(l, n)] = x])

\* del l[n] / l.pop(n), for n in range
ListDel(l, n) ==
    List(SubSeq(l.v, 1, Pos(l, n) - 1) \o SubSeq(l.v, Pos(l, n) + 1, Len(l.v)))

\* l.index(x): the position from 0 of the first element equal to x, or -1
\* where Python raises ValueError.
ListIndex(l, x) ==
    IF \E i \in 1..Len(l.v) : PyEq(l.v[i], x)
    THEN (CHOOSE i \in 1..Len(l.v) :
              /\ PyEq(l.v[i], x)
              /\ \A j \in 1..(i - 1) : ~PyEq(l.v[j], x)) - 1
    ELSE 0 - 1

\* Results of the helpers: exc is "none" or the exception raised.
Ret(x) == [exc |-> "none", val |-> x]

Raise(e) == [exc |-> e, val |-> Null]

(***************************************************************************)
(* get_entry                                                               *)
(***************************************************************************)
\* The "arr_ind and isinstance(data, list) and int(arr_ind) <= len(data) - 1"
\* test shared by get_entry, add_entry and remove_entry.
IndexTest(st, data) ==
    st.ai # <<>> /\ IsList(data) /\ ToInt(st.ai) <= Len(data.v) - 1

\* The for loop of get_entry from step i on.
RECURSIVE GetWalk(_, _, _)
GetWalk(data, ks, i) ==
    IF i > Len(ks) THEN Ret(data)
    ELSE IF ks[i].dk # <<>> /\ IsDict(data)
         THEN GetWalk(DictGet(data, ks[i].dk), ks, i + 1)
    ELSE IF IndexTest(ks[i], data)
         THEN IF InRange(data, ToInt(ks[i].ai))
              THEN GetWalk(data.v[Pos(data, ToInt(ks[i].ai))], ks, i + 1)
              ELSE Raise("IndexError")
    ELSE Ret(Null)

\* The guard at the head of get_entry, add_entry (and, after the root cases,
\* remove_entry): a non-empty key that valid_key rejects, on a list or dict.
KeyRejected(data, k, sp) ==
    /\ k # <<>>
    /\ ~valid_key(k, sp)
    /\ (IsList(data) \/ IsDict(data))

get_entry(data, k, sp) ==
    IF KeyRejected(data, k, sp) THEN Ret(Null)
    ELSE GetWalk(data, parse_key(k, sp), 1)

(***************************************************************************)
(* add_entry. The helper works in place on the tree it is given; here it   *)
(* returns the tree after the call (data), the value it returns (ret) and  *)
(* the exception it raises (exc); when it raises, data is the tree as the  *)
(* call left it, with the mappings it had created on the way.              *)
(***************************************************************************)
Done(node) == [exc |-> "none", node |-> node, ret |-> node]

Fail(e, node) == [exc |-> e, node |-> node, ret |-> Null]

\* The result of a step into a child, once the child's subtree is handled:
\* node is this level with the child's subtree as the call left it.
Lift(r, node) == [exc |-> r.exc, node |-> node, ret |-> r.ret]

\* add_entry descending into whatever an intermediate key holds, falsy or
\* not.
RECURSIVE AddWalkKeepsFalsy(_, _, _, _)
AddWalkKeepsFalsy(data, ks, i, item) ==
    LET st == ks[i]
        n  == ToInt(st.ai)
    IN  IF i = Len(ks)
        THEN IF IndexTest(st, data)
             THEN IF InRange(data, n) THEN Done(ListSet(data, n, item))
                  ELSE Fail("IndexError", data)
             ELSE IF st.dk # <<>> /\ IsDict(data)
             THEN Done(DictSet(data, st.dk, item))
             ELSE Fail("YeditException", data)
        ELSE IF st.dk # <<>>
        THEN IF IsDict(data) /\ st.dk \in DOMAIN data.v
             THEN LET r == AddWalkKeepsFalsy(data.v[st.dk], ks, i + 1, item)
                  IN  Lift(r, DictSet(data, st.dk, r.node))
             ELSE IF Truthy(data) /\ ~IsDict(data)
             THEN Fail("YeditException", data)
             ELSE IF ~IsDict(data)
             THEN Fail("TypeError", data)
             ELSE LET r == AddWalkKeepsFalsy(EmptyDict, ks, i + 1, item)
                  IN  Lift(r, DictSet(data, st.dk, r.node))
        ELSE IF IndexTest(st, data)
        THEN IF InRange(data, n)
             THEN LET r == AddWalkKeepsFalsy(data.v[Pos(data, n)], ks, i + 1, item)
                  IN  Lift(r, ListSet(data, n, r.node))
             ELSE Fail("IndexError", data)
        ELSE Fail("YeditException", data)

\* add_entry from step i on: the loop over key_indexes[:-1], then the last
\* index.
RECURSIVE AddWalk(_, _, _, _)
AddWalk(data, ks, i, item) ==
    LET st == ks[i]
        n  == ToInt(st.ai)
    IN  IF i = Len(ks)
        THEN IF IndexTest(st, data)
             THEN IF InRange(data, n) THEN Done(ListSet(data, n, item))
                  ELSE Fail("IndexError", data)
             ELSE IF st.dk # <<>> /\ IsDict(data)
             THEN Done(DictSet(data, st.dk, item))
             ELSE Fail("YeditException", data)
        ELSE IF st.dk # <<>>
        THEN IF IsDict(data) /\ st.dk \in DOMAIN data.v /\ Truthy(data.v[st.dk])
             THEN LET r == AddWalk(data.v[st.dk], ks, i + 1, item)
                  IN  Lift(r, DictSet(data, st.dk, r.node))
             ELSE IF Truthy(data) /\ ~IsDict(data)
             THEN Fail("YeditException", data)
             ELSE IF ~IsDict(data)
             THEN Fail("TypeError", data)   \* data[dict_key] = {} on a non-dict
             ELSE LET r == AddWalk(EmptyDict, ks, i + 1, item)
                  IN  Lift(r, DictSet(data, st.dk, r.node))
        ELSE IF IndexTest(st, data)
        THEN IF InRange(data, n)
             THEN LET r == AddWalk(data.v[Pos(data, n)], ks, i + 1, item)
                  IN  Lift(r, ListSet(data, n, r.node))
             ELSE Fail("IndexError", data)
        ELSE Fail("YeditException", data)

add_entry(data, k, item, sp) ==
    IF k = <<>> THEN [exc |-> "none", node |-> data, ret |-> item]
    ELSE IF KeyRejected(data, k, sp)
    THEN [exc |-> "none", node |-> data, ret |-> Null]
    ELSE IF parse_key(k, sp) = <<>>
    THEN Fail("IndexError", data)       \* key_indexes[-1] of an empty list
    ELSE AddWalk(data, parse_key(k, sp), 1, item)

(***************************************************************************)
(* remove_entry, in the same form; ret is True, False or None.             *)
(***************************************************************************)
Removed(node) == [exc |-> "none", node |-> node, ret |-> Bool(TRUE)]

NotRemoved(node, r) == [exc |-> "none", node |-> node, ret |-> r]

Hashable(x) == x.t \notin {"list", "dict"}

\* x in d, for a hashable x: the keys of a dict are strings.
KeyIn(d, x) == x.t = "str" /\ x.v \in DOMAIN d.v

RECURSIVE RemWalk(_, _, _)
RemWalk(data, ks, i) ==
    LET st == ks[i]
        n  == ToInt(st.ai)
    IN  IF i = Len(ks)
        THEN IF st.ai # <<>>
             THEN IF IsList(data) /\ n <= Len(data.v) - 1
                  THEN IF InRange(data, n) THEN Removed(ListDel(data, n))
                       ELSE Fail("IndexError", data)
                  ELSE NotRemoved(data, Null)
             ELSE IF st.dk # <<>> /\ IsDict(data)
             THEN IF st.dk \in DOMAIN data.v THEN Removed(DictDel(data, st.dk))
                  ELSE Fail("KeyError", data)
             ELSE NotRemoved(data, Null)
        ELSE IF st.dk # <<>> /\ IsDict(data)
        THEN LET r == RemWalk(DictGet(data, st.dk), ks, i + 1)
             IN  IF st.dk \in DOMAIN data.v
                 THEN Lift(r, DictSet(data, st.dk, r.node))
                 ELSE Lift(r, data)
        ELSE IF IndexTest(st, data)
        THEN IF InRange(data, n)
             THEN LET r == RemWalk(data.v[Pos(data, n)], ks, i + 1)
                  IN  Lift(r, ListSet(data, n, r.node))
             ELSE Fail("IndexError", data)
        ELSE NotRemoved(data, Null)

\* remove_entry with key == '' on a dict
RemoveRootDict(data, index, value) ==
    IF value # Null
    THEN IF DOMAIN data.v = {} THEN Fail("KeyError", data)  \* pop on an empty dict
         ELSE IF ~Hashable(value) THEN Fail("TypeError", data)
         ELSE IF KeyIn(data, value) THEN Removed(DictDel(data, value.v))
         ELSE Fail("KeyError", data)
    ELSE IF index # Null THEN Fail("YeditException", data)
    ELSE Removed(EmptyDict)

\* remove_entry with key == '' on a list
RemoveRootList(data, index, value) ==
    IF value # Null
    THEN IF ListIndex(data, value) < 0 THEN NotRemoved(data, Bool(FALSE))
         ELSE Removed(ListDel(data, ListIndex(data, value)))
    ELSE IF index # Null
    THEN IF InRange(data, index.v) THEN Removed(ListDel(data, index.v))
         ELSE Fail("IndexError", data)
    ELSE Removed(EmptyList)

remove_entry(data, k, index, value, sp) ==
    IF k = <<>> /\ IsDict(data) THEN RemoveRootDict(data, index, value)
    ELSE IF k = <<>> /\ IsList(data) THEN RemoveRootList(data, index, value)
    ELSE IF ~(k # <<>> /\ valid_key(k, sp)) /\ (IsList(data) \/ IsDict(data))
    THEN NotRemoved(data, Null)
    ELSE IF parse_key(k, sp) = <<>>
    THEN Fail("IndexError", data)       \* key_indexes[-1] of an empty list
    ELSE RemWalk(data, parse_key(k, sp), 1)

(***************************************************************************)
(* The store operations. Each is given the tree self.yaml_dict holds (doc) *)
(* and yields: exc, the exception raised ("none" when it returns);         *)
(* changed, the first member of the pair returned; doc, the tree           *)
(* self.yaml_dict holds afterwards; old, what the tree object that         *)
(* self.yaml_dict held before the call looks like afterwards (it differs   *)
(* from the tree before the call exactly when the call wrote in place).    *)
(***************************************************************************)
\* Yedit.__init__: separator='.'
separator == "."

Raised(e, doc) == [exc |-> e, changed |-> FALSE, doc |-> doc, old |-> doc]

Same(doc) == [exc |-> "none", changed |-> FALSE, doc |-> doc, old |-> doc]

\* self.yaml_dict = <a new tree>
Fresh(new, doc) == [exc |-> "none", changed |-> TRUE, doc |-> new, old |-> doc]

\* a write through a reference into the tree self.yaml_dict holds
InPlace(new) == [exc |-> "none", changed |-> TRUE, doc |-> new, old |-> new]

\* The tree after the entry get_entry reached along ks is made to be new.
RECURSIVE SetWalk(_, _, _, _)
SetWalk(data, ks, i, new) ==
    IF i > Len(ks) THEN new
    ELSE IF ks[i].dk # <<>>
    THEN DictSet(data, ks[i].dk,
                 SetWalk(DictGet(data, ks[i].dk), ks, i + 1, new))
    ELSE ListSet(data, ToInt(ks[i].ai),
                 SetWalk(data.v[Pos(data, ToInt(ks[i].ai))], ks, i + 1, new))

\* The tree after entry, the value get_entry returned for path, is written.
WriteEntry(doc, path, new) == SetWalk(doc, parse_key(path, separator), 1, new)

get(doc, path) == get_entry(doc, path, separator)

\* Variants of put: add_entry run on the store's own tree; no early return
\* for an equal entry; YeditException caught and reported as no change; the
\* value add_entry returns installed as the document; a scalar accepted as
\* the root.
PutInPlace(doc, path, value) ==
    LET g == get_entry(doc, path, separator)
        a == add_entry(doc, path, value, separator)
    IN  IF g.exc # "none" THEN Raised(g.exc, doc)
        ELSE IF PyEq(g.val, value) THEN Same(doc)
        ELSE IF a.exc # "none" THEN Raised(a.exc, a.node)
        ELSE IF a.ret = Null THEN Same(doc)
        ELSE IF path = <<>>
        THEN IF IsList(a.ret) \/ IsDict(a.ret) THEN Fresh(a.ret, doc)
             ELSE Same(doc)
        ELSE InPlace(a.node)

PutNoEqualCheck(doc, path, value) ==
    LET g == get_entry(doc, path, separator)
        a == add_entry(doc, path, value, separator)
    IN  IF g.exc # "none" THEN Raised(g.exc, doc)
        ELSE IF a.exc # "none" THEN Raised(a.exc, doc)
        ELSE IF a.ret = Null THEN Same(doc)
        ELSE IF path = <<>>
        THEN IF IsList(a.ret) \/ IsDict(a.ret) THEN Fresh(a.ret, doc)
             ELSE Same(doc)
        ELSE Fresh(a.node, doc)

PutCatchesConflict(doc, path, value) ==
    LET g == get_entry(doc, path, separator)
        a == add_entry(doc, path, value, separator)
    IN  IF g.exc # "none" THEN Raised(g.exc, doc)
        ELSE IF PyEq(g.val, value) THEN Same(doc)
        ELSE IF a.exc = "YeditException" THEN Same(doc)
        ELSE IF a.exc # "none" THEN Raised(a.exc, doc)
        ELSE IF a.ret = Null THEN Same(doc)
        ELSE IF path = <<>>
        THEN IF IsList(a.ret) \/ IsDict(a.ret) THEN Fresh(a.ret, doc)
             ELSE Same(doc)
        ELSE Fresh(a.node, doc)

PutInstallsResult(doc, path, value) ==
    LET g == get_entry(doc, path, separator)
        a == add_entry(doc, path, value, separator)
    IN  IF g.exc # "none" THEN Raised(g.exc, doc)
        ELSE IF PyEq(g.val, value) THEN Same(doc)
        ELSE IF a.exc # "none" THEN Raised(a.exc, doc)
        ELSE IF a.ret = Null THEN Same(doc)
        ELSE IF IsList(a.ret) \/ IsDict(a.ret) THEN Fresh(a.ret, doc)
        ELSE Same(doc)

PutRootAnything(doc, path, value) ==
    LET g == get_entry(doc, path, separator)
        a == add_entry(doc, path, value, separator)
    IN  IF g.exc # "none" THEN Raised(g.exc, doc)
        ELSE IF PyEq(g.val, value) THEN Same(doc)
        ELSE IF a.exc # "none" THEN Raised(a.exc, doc)
        ELSE IF a.ret = Null THEN Same(doc)
        ELSE IF path = <<>> THEN Fresh(a.ret, doc)
        ELSE Fresh(a.node, doc)

put(doc, path, value) ==
    LET g == get_entry(doc, path, separator)
        a == add_entry(doc, path, value, separator)     \* on tmp_copy
    IN  IF g.exc # "none" THEN Raised(g.exc, doc)
        ELSE IF PyEq(g.val, value) THEN Same(doc)
        ELSE IF a.exc # "none" THEN Raised(a.exc, doc)
        ELSE IF a.ret = Null THEN Same(doc)
        ELSE IF path = <<>>
        THEN IF IsList(a.ret) \/ IsDict(a.ret) THEN Fresh(a.ret, doc)
             ELSE Same(doc)
        ELSE Fresh(a.node, doc)

\* entry.update(value)
DictUpdate(d, e) ==
    Dict([k \in DOMAIN d.v \cup DOMAIN e.v |->
              IF k \in DOMAIN e.v THEN e.v[k] ELSE d.v[k]])

\* Variants of update: the list branch appending without looking for the
\* value; the dict branch reporting a change only when the merge made one.
UpdateListNoSearch(doc, path, entry, value, index, curr_value) ==
    IF Truthy(curr_value) /\ ListIndex(entry, curr_value) < 0 THEN Same(doc)
    ELSE LET ind == IF Truthy(curr_value)
                    THEN Num(ListIndex(entry, curr_value))
                    ELSE index
         IN  IF ind # Null /\ ~InRange(entry, ind.v)
             THEN Raised("IndexError", doc)
             ELSE IF ind # Null /\ ~PyEq(entry.v[Pos(entry, ind.v)], value)
             THEN InPlace(WriteEntry(doc, path, ListSet(entry, ind.v, value)))
             ELSE InPlace(WriteEntry(doc, path, List(Append(entry.v, value))))

\* The list branch of update.
UpdateList(doc, path, entry, value, index, curr_value) ==
    IF Truthy(curr_value) /\ ListIndex(entry, curr_value) < 0 THEN Same(doc)
    ELSE LET ind == IF Truthy(curr_value)
                    THEN Num(ListIndex(entry, curr_value))
                    ELSE index
         IN  IF ind # Null /\ ~InRange(entry, ind.v)
             THEN Raised("IndexError", doc)
             ELSE IF ind # Null /\ ~PyEq(entry.v[Pos(entry, ind.v)], value)
             THEN InPlace(WriteEntry(doc, path, ListSet(entry, ind.v, value)))
             ELSE IF ListIndex(entry, value) < 0
             THEN InPlace(WriteEntry(doc, path, List(Append(entry.v, value))))
             ELSE Same(doc)

UpdateQuietMerge(doc, path, value, index, curr_value) ==
    LET g == get_entry(doc, path, separator)
    IN  IF g.exc # "none" THEN Raised(g.exc, doc)
        ELSE IF IsDict(g.val)
        THEN IF ~IsDict(value) THEN Raised("YeditException", doc)
             ELSE IF DictUpdate(g.val, value) = g.val THEN Same(doc)
             ELSE InPlace(WriteEntry(doc, path, DictUpdate(g.val, value)))
        ELSE IF IsList(g.val)
        THEN UpdateList(doc, path, g.val, value, index, curr_value)
        ELSE Same(doc)

update(doc, path, value, index, curr_value) ==
    LET g == get_entry(doc, path, separator)
    IN  IF g.exc # "none" THEN Raised(g.exc, doc)
        ELSE IF IsDict(g.val)
        THEN IF ~IsDict(value) THEN Raised("YeditException", doc)
             ELSE InPlace(WriteEntry(doc, path, DictUpdate(g.val, value)))
        ELSE IF IsList(g.val)
        THEN UpdateList(doc, path, g.val, value, index, curr_value)
        ELSE Same(doc)

\* append when get_entry found nothing: self.put(path, []), then get_entry
\* again on what self.yaml_dict holds now.
AppendAbsent(doc, path, value) ==
    LET p  == put(doc, path, EmptyList)
        g  == get_entry(p.doc, path, separator)
        nw == WriteEntry(p.doc, path, List(Append(g.val.v, value)))
    IN  IF p.exc # "none" THEN p
        ELSE IF g.exc # "none"
        THEN [exc |-> g.exc, changed |-> FALSE, doc |-> p.doc, old |-> p.old]
        ELSE IF ~IsList(g.val)
        THEN [exc |-> "none", changed |-> FALSE, doc |-> p.doc, old |-> p.old]
        ELSE [exc |-> "none", changed |-> TRUE, doc |-> nw,
              old |-> IF p.changed THEN p.old ELSE nw]

\* A variant of append that puts the new value in front.
AppendInFront(doc, path, value) ==
    LET g == get_entry(doc, path, separator)
    IN  IF g.exc # "none" THEN Raised(g.exc, doc)
        ELSE IF g.val = Null THEN AppendAbsent(doc, path, value)
        ELSE IF ~IsList(g.val) THEN Same(doc)
        ELSE InPlace(WriteEntry(doc, path, List(<<value>> \o g.val.v)))

append(doc, path, value) ==
    LET g == get_entry(doc, path, separator)
    IN  IF g.exc # "none" THEN Raised(g.exc, doc)
        ELSE IF g.val = Null THEN AppendAbsent(doc, path, value)
        ELSE IF ~IsList(g.val) THEN Same(doc)
        ELSE InPlace(WriteEntry(doc, path, List(Append(g.val.v, value))))

\* A variant of pop that takes the last equal element of a list.
PopLastEqual(doc, path, key_or_item) ==
    LET g == get_entry(doc, path, separator)
        n == CHOOSE i \in 0..Len(g.val.v) :
                 /\ i > 0 => PyEq(g.val.v[i], key_or_item)
                 /\ \A j \in (i + 1)..Len(g.val.v) :
                        ~PyEq(g.val.v[j], key_or_item)
    IN  IF g.exc # "none" THEN Raised(g.exc, doc)
        ELSE IF g.val = Null THEN Same(doc)
        ELSE IF IsDict(g.val)
        THEN IF ~Hashable(key_or_item) THEN Raised("TypeError", doc)
             ELSE IF KeyIn(g.val, key_or_item)
             THEN InPlace(WriteEntry(doc, path, DictDel(g.val, key_or_item.v)))
             ELSE Same(doc)
        ELSE IF IsList(g.val)
        THEN IF n = 0 THEN Same(doc)
             ELSE InPlace(WriteEntry(doc, path, ListDel(g.val, n - 1)))
        ELSE Same(doc)

pop(doc, path, key_or_item) ==
    LET g == get_entry(doc, path, separator)
    IN  IF g.exc # "none" THEN Raised(g.exc, doc)
        ELSE IF g.val = Null THEN Same(doc)
        ELSE IF IsDict(g.val)
        THEN IF ~Hashable(key_or_item) THEN Raised("TypeError", doc)
             ELSE IF KeyIn(g.val, key_or_item)
             THEN InPlace(WriteEntry(doc, path, DictDel(g.val, key_or_item.v)))
             ELSE Same(doc)
        ELSE IF IsList(g.val)
        THEN IF ListIndex(g.val, key_or_item) < 0 THEN Same(doc)
             ELSE InPlace(WriteEntry(doc, path,
                      ListDel(g.val, ListIndex(g.val, key_or_item))))
        ELSE Same(doc)

\* delete without the test of the entry: whatever get_entry finds,
\* remove_entry decides.
DeleteFoundOrNot(doc, path, index, value) ==
    LET g == get_entry(doc, path, separator)
        r == remove_entry(doc, path, index, value, separator)
    IN  IF g.exc # "none" THEN Raised(g.exc, doc)
        ELSE IF r.exc # "none" THEN Raised(r.exc, r.node)
        ELSE IF ~Truthy(r.ret) THEN Same(r.node)
        ELSE InPlace(r.node)

delete(doc, path, index, value) ==
    LET g == get_entry(doc, path, separator)
        r == remove_entry(doc, path, index, value, separator)
    IN  IF g.exc # "none" THEN Raised(g.exc, doc)
        ELSE IF g.val = Null THEN Same(doc)
        ELSE IF r.exc # "none" THEN Raised(r.exc, r.node)
        ELSE IF ~Truthy(r.ret) THEN Same(r.node)
        ELSE InPlace(r.node)

\* exists gives True, False or an exception. For a dict entry and a dict
\* value the loop over value.items() stops at the first key whose entry
\* differs (False) or that entry does not have (KeyError); which comes first
\* is the order of the items of value, which a Dict here does not record, so
\* exists is the set of the outcomes the orders give.
exists(doc, path, value) ==
    LET g       == get_entry(doc, path, separator)
        entry   == g.val
        missing == {k \in DOMAIN value.v : k \notin DOMAIN entry.v}
        differs == {k \in DOMAIN value.v \cap DOMAIN entry.v :
                        ~PyEq(entry.v[k], value.v[k])}
    IN  IF g.exc # "none" THEN {Raise(g.exc)}
        ELSE IF IsList(entry)
        THEN {Ret(Bool(ListIndex(entry, value) >= 0))}
        ELSE IF IsDict(entry)
        THEN IF IsDict(value)
             THEN IF missing = {} /\ differs = {} THEN {Ret(Bool(TRUE))}
                  ELSE (IF missing # {} THEN {Raise("KeyError")} ELSE {})
                           \cup (IF differs # {} THEN {Ret(Bool(FALSE))} ELSE {})
             ELSE IF ~Hashable(value) THEN {Raise("TypeError")}
             ELSE {Ret(Bool(KeyIn(entry, value)))}
        ELSE {Ret(Bool(PyEq(entry, value)))}

(***************************************************************************)
(* The store as a state machine: a caller builds a Yedit on a document and *)
(* calls its public operations one after the other.                        *)
(*   yaml_dict  the tree self.yaml_dict holds                              *)
(*   held       what the tree object the previous call returned (its       *)
(*              rval[1], a reference to self.yaml_dict) looks like now     *)
(*   last       the latest call: operation, arguments, outcome, the tree   *)
(*              before it (pre), and how it relates to the call before it  *)
(*   nops       the number of calls made                                   *)
(***************************************************************************)
MaxOps == 2

ka == <<"a">>

kb == <<"b">>

kc == <<"c">>

kd == <<"d">>

\* Documents the store is built on.
InitDocs ==
    { EmptyDict,
      Dict(ka :> List(<<Num(1), Num(2)>>)),
      Dict(ka :> Dict(kb :> Num(1))),
      Dict(ka :> Dict(kd :> Num(1)) @@ kd :> Num(0)),
      Dict(ka :> EmptyList),
      List(<<Num(1), Num(2)>>) }

\* Paths given to the operations.
Paths ==
    { <<>>,
      <<"a">>,
      <<"a", ".", "b">>,
      <<"a", ".", "b", ".", "c">>,
      <<"a", "[", "0", "]">>,
      <<"a", "[", "5", "]">>,
      <<"a", "[", "-", "3", "]">>,
      <<"a", ".", ".", "b">>,
      <<"%">> }

\* Values given to put.
Values == { Null, Num(5), EmptyList, Dict(kb :> Num(1)) }

\* Paths and values given to append.
AppendPaths == { <<>>, <<"a">>, <<"a", ".", "b">>, <<"a", "[", "0", "]">> }

AppendValues == { Null, Num(1) }

\* Paths and arguments given to pop.
PopPaths == { <<>>, <<"a">>, <<"a", ".", "b">> }

PopItems == { Str(ka), Str(kb), Num(1) }

\* The index and value arguments of delete: remove_entry reads them for the
\* empty path only.
DeleteRootArgs ==
    { <<Null, Null>>, <<Num(0), Null>>, <<Null, Num(1)>>, <<Null, Str(ka)>> }

DeleteArgs ==
    { <<path, Null, Null>> : path \in Paths \ {<<>>} }
        \cup { <<<<>>, iv[1], iv[2]>> : iv \in DeleteRootArgs }

\* Paths and arguments given to update: value, and the pair index, curr_value.
UpdatePaths == { <<>>, <<"a">> }

UpdateValues == { Num(5), Num(1), Dict(kd :> Num(5)) }

UpdateAt ==
    { <<Null, Null>>, <<Num(0), Null>>, <<Num(5), Null>>, <<Null, Num(2)>>,
      <<Num(0), Num(2)>>, <<Null, Num(0)>> }

\* Paths and values given to exists.
ExistsPaths == { <<>>, <<"a">> }

ExistsValues ==
    { Dict(kb :> Num(1)), Dict(kd :> Num(0)),
      Dict(kb :> Num(1) @@ kd :> Num(0)) }

NoCall(doc) ==
    [op |-> "none", path |-> <<>>, value |-> Null, index |-> Null,
     curr |-> Null, exc |-> "none", changed |-> FALSE, ret |-> Null,
     pre |-> doc, same |-> FALSE, prevExc |-> "none", prevChanged |-> FALSE]

StoreIdle ==
    /\ yaml_dict = EmptyDict
    /\ last = NoCall(EmptyDict)
    /\ held = EmptyDict
    /\ nops = 0

StoreInit ==
    /\ yaml_dict \in InitDocs
    /\ last = NoCall(yaml_dict)
    /\ held = yaml_dict
    /\ nops = 0

\* One call of a public operation with outcome out: the caller keeps the
\* reference it was handed before, which now shows out.old.
Call(op, path, value, index, curr, out, ret) ==
    /\ nops < MaxOps
    /\ nops' = nops + 1
    /\ yaml_dict' = out.doc
    /\ held' = out.old
    /\ last' = [op |-> op, path |-> path, value |-> value, index |-> index,
                curr |-> curr, exc |-> out.exc, changed |-> out.changed,
                ret |-> ret, pre |-> yaml_dict,
                same |-> /\ last.op = op /\ last.path = path
                         /\ last.value = value /\ last.index = index
                         /\ last.curr = curr,
                prevExc |-> last.exc, prevChanged |-> last.changed]
    /\ UNCHANGED <<kvars, rvars, wvars, bvars>>

Get ==
    \E path \in Paths :
        LET g == get(yaml_dict, path)
        IN  Call("get", path, Null, Null, Null,
                 [exc |-> g.exc, changed |-> FALSE, doc |-> yaml_dict,
                  old |-> yaml_dict], g.val)

Put ==
    \E path \in Paths, value \in Values :
        Call("put", path, value, Null, Null,
             put(yaml_dict, path, value), Null)

Update ==
    \E path \in UpdatePaths, value \in UpdateValues, at \in UpdateAt :
        Call("update", path, value, at[1], at[2],
             update(yaml_dict, path, value, at[1], at[2]), Null)

AppendOp ==
    \E path \in AppendPaths, value \in AppendValues :
        Call("append", path, value, Null, Null,
             append(yaml_dict, path, value), Null)

Pop ==
    \E path \in PopPaths, key_or_item \in PopItems :
        Call("pop", path, key_or_item, Null, Null,
             pop(yaml_dict, path, key_or_item), Null)

Delete ==
    \E d \in DeleteArgs :
        Call("delete", d[1], d[3], d[2], Null,
             delete(yaml_dict, d[1], d[2], d[3]), Null)

Exists ==
    \E path \in ExistsPaths, value \in ExistsValues :
        \E r \in exists(yaml_dict, path, value) :
            Call("exists", path, value, Null, Null,
                 [exc |-> r.exc, changed |-> FALSE, doc |-> yaml_dict,
                  old |-> yaml_dict], r.val)

(***************************************************************************)
(* Properties of the document store (specification Spec)                   *)
(***************************************************************************)
Mutating == {"put", "update", "append", "pop", "delete"}

\* C2: a put that returned (without raising) is idempotent: the same put
\* made again right after it returns changed=False and leaves the document
\* as the first put left it.
C2_PutIdempotent ==
    (last.op = "put" /\ last.same /\ last.prevExc = "none")
        => (last.exc = "none" /\ ~last.changed /\ yaml_dict = last.pre)

\* A second identical put, after a first one that changed the document.
C2_Witness ==
    /\ last.op = "put" /\ last.same /\ last.prevExc = "none"
    /\ last.prevChanged /\ ~last.changed

\* C3: a call of put, update, append, pop or delete that raises or returns
\* changed=False leaves the store's document equal to what it was.
C3_FailedCallKeepsDocument ==
    (last.op \in Mutating /\ (last.exc # "none" \/ ~last.changed))
        => yaml_dict = last.pre

\* A put that raised after add_entry had created a mapping on its copy.
C3_Witness ==
    /\ last.op = "put" /\ last.exc = "YeditException"
    /\ last.pre = EmptyDict /\ last.path = <<"a", "[", "0", "]">>
    /\ yaml_dict = EmptyDict

\* C4: get never faults; it returns the addressed value or None.
C4_GetNeverFaults == last.op = "get" => last.exc = "none"

\* The steps of a path valid_key accepts, or none for other paths.
StepsOf(path) ==
    IF path # <<>> /\ valid_key(path, separator)
    THEN parse_key(path, separator) ELSE <<>>

AllMapKeys(ks) == \A i \in 1..Len(ks) : ks[i].dk # <<>>

\* From step i on, data is a mapping and some intermediate key is missing
\* from its mapping, the ones before it holding mappings.
RECURSIVE MissingOnPath(_, _, _)
MissingOnPath(data, ks, i) ==
    /\ i < Len(ks)
    /\ IsDict(data)
    /\ \/ ks[i].dk \notin DOMAIN data.v
       \/ /\ IsDict(data.v[ks[i].dk])
          /\ MissingOnPath(data.v[ks[i].dk], ks, i + 1)

\* data with the value v at the end of the MapKey steps ks[i..], an empty
\* mapping made where a step is missing, nothing else touched.
RECURSIVE Created(_, _, _, _)
Created(data, ks, i, v) ==
    IF i = Len(ks) THEN DictSet(data, ks[i].dk, v)
    ELSE DictSet(data, ks[i].dk,
                 Created(IF ks[i].dk \in DOMAIN data.v
                         THEN data.v[ks[i].dk] ELSE EmptyDict, ks, i + 1, v))

\* The case of C5: put on a path of MapKey steps of which an intermediate
\* one is missing from its mapping.
CreateCase ==
    /\ last.op = "put"
    /\ AllMapKeys(StepsOf(last.path))
    /\ MissingOnPath(last.pre, StepsOf(last.path), 1)

CreateDone ==
    /\ last.exc = "none"
    /\ last.changed
    /\ yaml_dict = Created(last.pre, StepsOf(last.path), 1, last.value)

\* C5 as stated: put on a path with missing intermediate MapKey steps
\* creates the mappings, sets the final key, returns changed=True and leaves
\* the other entries alone, whatever the value.
C5_CreateOnWriteAnyValue == CreateCase => CreateDone

\* C5 amended: the same, for every value other than None.
C5_CreateOnWrite == (CreateCase /\ last.value # Null) => CreateDone

\* put of a.b.c = 5 on the empty mapping gives {a: {b: {c: 5}}}.
C5_Witness ==
    /\ last.op = "put" /\ last.pre = EmptyDict
    /\ last.path = <<"a", ".", "b", ".", "c">> /\ last.value = Num(5)
    /\ last.changed
    /\ yaml_dict = Dict(ka :> Dict(kb :> Dict(kc :> Num(5))))

\* put reaches add_entry and add_entry raises YeditException there.
PathConflict(doc, path, value) ==
    /\ get_entry(doc, path, separator).exc = "none"
    /\ ~PyEq(get_entry(doc, path, separator).val, value)
    /\ add_entry(doc, path, value, separator).exc = "YeditException"

\* C6 as stated: on a path that conflicts with the shape of the document,
\* put returns changed=False and the document is unchanged.
C6_ConflictReturnsUnchanged ==
    (last.op = "put" /\ PathConflict(last.pre, last.path, last.value))
        => (last.exc = "none" /\ ~last.changed /\ yaml_dict = last.pre)

\* C6 amended: on such a path put raises YeditException to its caller, and
\* the document is unchanged.
C6_ConflictRaises ==
    (last.op = "put" /\ PathConflict(last.pre, last.path, last.value))
        => (last.exc = "YeditException" /\ yaml_dict = last.pre)

\* put of a.b.c on {a: {b: 1}}: the step c meets the scalar 1.
C6_Witness ==
    /\ last.op = "put" /\ last.exc = "YeditException"
    /\ last.pre = Dict(ka :> Dict(kb :> Num(1)))
    /\ last.path = <<"a", ".", "b", ".", "c">>

\* C7: the document handed out by the call before is not altered by a
\* mutating call that succeeds.
C7_HeldDocumentNotAltered ==
    (last.op \in Mutating /\ last.exc = "none" /\ last.changed)
        => held = last.pre

\* The value get_entry finds at path in doc.
Target(doc, path) == get_entry(doc, path, separator).val

Found(doc, path) == get_entry(doc, path, separator).exc = "none"

\* An update whose target is a list / a dict.
UpdateOfList ==
    /\ last.op = "update"
    /\ Found(last.pre, last.path) /\ IsList(Target(last.pre, last.path))

UpdateOfDict ==
    /\ last.op = "update"
    /\ Found(last.pre, last.path) /\ IsDict(Target(last.pre, last.path))

\* The first position from 1 of an element of the sequence s equal to x, 0
\* if there is none.
FirstEqual(s, x) ==
    IF \E i \in 1..Len(s) : PyEq(s[i], x)
    THEN CHOOSE i \in 1..Len(s) :
             PyEq(s[i], x) /\ \A j \in 1..(i - 1) : ~PyEq(s[j], x)
    ELSE 0

\* C11: update of a list with a curr_value given, whatever the curr_value
\* and the index: when curr_value is in the list, its first occurrence is
\* overwritten by the value (changed=True when they differ) and nothing else
\* changes; when it is not, changed=False and the document is unchanged.
C11_UpdateByCurrValue ==
    (UpdateOfList /\ last.curr # Null)
        => LET e == Target(last.pre, last.path).v
               i == FirstEqual(e, last.curr)
           IN  /\ last.exc = "none"
               /\ IF i = 0 THEN ~last.changed /\ yaml_dict = last.pre
                  ELSE /\ last.changed <=> ~PyEq(e[i], last.value)
                       /\ last.changed =>
                              yaml_dict = WriteEntry(last.pre, last.path,
                                              List([e EXCEPT ![i] = last.value]))
                       /\ ~last.changed => yaml_dict = last.pre

\* C12: update of a list with neither curr_value nor index: a value that is
\* in the list already gives changed=False and leaves the document as it
\* is; any other value becomes the last element, with changed=True; the same
\* update made again gives changed=False.
C12_UpdateAddsOnce ==
    (UpdateOfList /\ last.curr = Null /\ last.index = Null)
        => LET e == Target(last.pre, last.path).v
           IN  /\ last.exc = "none"
               /\ IF FirstEqual(e, last.value) # 0
                  THEN ~last.changed /\ yaml_dict = last.pre
                  ELSE /\ last.changed
                       /\ yaml_dict = WriteEntry(last.pre, last.path,
                                          List(Append(e, last.value)))
               /\ (last.same /\ last.prevExc = "none") => ~last.changed

\* The same update of a list made twice: the first appends, the second
\* finds the value.
C12_Witness ==
    /\ UpdateOfList /\ last.curr = Null /\ last.index = Null
    /\ last.same /\ last.prevChanged /\ ~last.changed
    /\ LET e == Target(yaml_dict, last.path).v
       IN  e # <<>> /\ e[Len(e)] = last.value

\* C13: update of a dict with a dict sets every key of the value, keeps the
\* other keys, and returns changed=True even when nothing is altered; with
\* any other value it raises YeditException and the document is unchanged.
C13_UpdateMergesDict ==
    UpdateOfDict
        => IF IsDict(last.value)
           THEN LET e == Target(last.pre, last.path).v
                    t == Target(yaml_dict, last.path).v
                IN  /\ last.exc = "none" /\ last.changed
                    /\ DOMAIN t = DOMAIN e \cup DOMAIN last.value.v
                    /\ \A k \in DOMAIN t :
                           t[k] = IF k \in DOMAIN last.value.v
                                  THEN last.value.v[k] ELSE e[k]
                    /\ yaml_dict = WriteEntry(last.pre, last.path, Dict(t))
           ELSE last.exc = "YeditException" /\ yaml_dict = last.pre

\* A merge that alters nothing and still returns changed=True.
C13_Witness ==
    /\ UpdateOfDict /\ IsDict(last.value)
    /\ last.changed /\ yaml_dict = last.pre

\* An append, by what get_entry finds at the path before the call.
AppendCall == last.op = "append" /\ Found(last.pre, last.path)

AppendAtNothing == AppendCall /\ Target(last.pre, last.path) = Null

AppendAtList == AppendCall /\ IsList(Target(last.pre, last.path))

\* A list holding value alone is at the path after the call.
AppendCreated ==
    /\ last.exc = "none" /\ last.changed
    /\ Found(yaml_dict, last.path)
    /\ Target(yaml_dict, last.path) = List(<<last.value>>)

\* What C14 says of a target that is a list, and of one that is neither
\* None nor a list.
AppendOnPresent ==
    /\ AppendAtList
           => /\ last.exc = "none" /\ last.changed
              /\ yaml_dict = WriteEntry(last.pre, last.path,
                     List(Append(Target(last.pre, last.path).v, last.value)))
    /\ (AppendCall /\ ~AppendAtNothing /\ ~AppendAtList)
           => (last.exc = "none" /\ ~last.changed /\ yaml_dict = last.pre)

\* C14 as stated: append makes a list of the value alone wherever nothing is
\* at the path, adds the value at the end of a list target, changed=True in
\* both cases, and returns changed=False on any other target.
C14_AppendAlwaysCreates ==
    /\ AppendAtNothing => AppendCreated
    /\ AppendOnPresent

\* C14 amended: where nothing is at the path, the list is made when
\* put(path, []) goes through; when add_entry raises in that put, append
\* raises the same exception, and when put rejects the key append returns
\* changed=False; the document is unchanged in both cases. The rest as stated.
C14_AppendCreatesWherePutCan ==
    /\ AppendAtNothing
           => LET a == add_entry(last.pre, last.path, EmptyList, separator)
              IN  IF a.exc # "none"
                  THEN last.exc = a.exc /\ yaml_dict = last.pre
                  ELSE IF KeyRejected(last.pre, last.path, separator)
                  THEN /\ last.exc = "none" /\ ~last.changed
                       /\ yaml_dict = last.pre
                  ELSE AppendCreated
    /\ AppendOnPresent

\* append of 1 at a.b on {a: {d: 1}, d: 0}: the list [1] is made at a.b.
C14_Witness ==
    /\ AppendAtNothing /\ AppendCreated
    /\ last.path = <<"a", ".", "b">> /\ last.value = Num(1)
    /\ yaml_dict = Dict(ka :> Dict(kd :> Num(1) @@ kb :> List(<<Num(1)>>))
                            @@ kd :> Num(0))

\* append of a second element to a list.
C14_WitnessList ==
    /\ AppendAtList /\ last.changed
    /\ Len(Target(yaml_dict, last.path).v) >= 2

\* The sequence s without its element at position i.
Without(s, i) == SubSeq(s, 1, i - 1) \o SubSeq(s, i + 1, Len(s))

\* A pop with a scalar as key_or_item: the keys of a mapping are strings.
PopCall ==
    /\ last.op = "pop" /\ Found(last.pre, last.path)
    /\ Hashable(last.value)

\* C15: pop removes the named key from a dict target that has it, and the
\* first equal element from a list target that holds one, with changed=True
\* and nothing else touched; when there is no target, or the key or item is
\* not found, it returns changed=False and the document is unchanged.
C15_PopRemovesOne ==
    PopCall
        => LET e == Target(last.pre, last.path)
               k == last.value
           IN  /\ last.exc = "none"
               /\ IF IsDict(e) /\ k.t = "str" /\ k.v \in DOMAIN e.v
                  THEN /\ last.changed
                       /\ yaml_dict = WriteEntry(last.pre, last.path,
                              Dict([j \in DOMAIN e.v \ {k.v} |-> e.v[j]]))
                  ELSE IF IsList(e) /\ FirstEqual(e.v, k) # 0
                  THEN /\ last.changed
                       /\ yaml_dict = WriteEntry(last.pre, last.path,
                              List(Without(e.v, FirstEqual(e.v, k))))
                  ELSE ~last.changed /\ yaml_dict = last.pre

\* pop of 1 from the list [1, 2, 1] at a leaves [2, 1].
C15_Witness ==
    /\ PopCall /\ last.changed /\ last.value = Num(1)
    /\ last.pre = Dict(ka :> List(<<Num(1), Num(2), Num(1)>>))
    /\ yaml_dict = Dict(ka :> List(<<Num(2), Num(1)>>))

\* pop of the key b from the dict at a.
C15_WitnessKey ==
    /\ PopCall /\ last.changed /\ last.value = Str(kb)
    /\ IsDict(Target(last.pre, last.path))

\* The cases in which C16 says delete removes nothing: nothing is at the
\* path; the path is empty and the value names no key of the root dict or
\* no element of the root list; the path is empty and the root is empty.
DeleteNothingAt ==
    /\ Found(last.pre, last.path)
    /\ Target(last.pre, last.path) = Null

DeleteRootMiss ==
    /\ last.path = <<>> /\ last.value # Null
    /\ \/ IsDict(last.pre) /\ ~KeyIn(last.pre, last.value)
       \/ IsList(last.pre) /\ FirstEqual(last.pre.v, last.value) = 0

DeleteRootEmpty ==
    /\ last.path = <<>>
    /\ last.pre \in {EmptyDict, EmptyList}

\* C16: delete returns changed=True exactly when it removed an entry, and
\* in the cases above it returns changed=False, raises nothing and leaves
\* the document as it is.
C16_DeleteReportsRemoval ==
    last.op = "delete"
        => /\ last.exc = "none" => (last.changed <=> yaml_dict # last.pre)
           /\ (DeleteNothingAt \/ DeleteRootMiss \/ DeleteRootEmpty)
                  => (last.exc = "none" /\ ~last.changed
                          /\ yaml_dict = last.pre)

\* An exists on a dict target with a dict value.
ExistsOfDict ==
    /\ last.op = "exists"
    /\ Found(last.pre, last.path) /\ IsDict(Target(last.pre, last.path))
    /\ IsDict(last.value)

\* Every key of the value is in the target with an equal value.
Covered(e, v) ==
    \A k \in DOMAIN v.v : k \in DOMAIN e.v /\ PyEq(e.v[k], v.v[k])

\* C17: exists on a dict target with a dict value returns True when every
\* key of the value is in the target with an equal value, and otherwise
\* returns False without raising.
C17_ExistsPartialMatch ==
    ExistsOfDict
        => /\ last.exc = "none"
           /\ last.ret = Bool(Covered(Target(last.pre, last.path), last.value))

\* C19: put with the empty path makes a dict or list value that differs
\* from the document the whole document, with changed=True; for a scalar
\* value it returns changed=False, raises nothing and leaves the document.
C19_PutRoot ==
    (last.op = "put" /\ last.path = <<>>)
        => /\ last.exc = "none"
           /\ (IsDict(last.value) \/ IsList(last.value))
                  /\ ~PyEq(last.value, last.pre)
                  => (last.changed /\ yaml_dict = last.value)
           /\ ~(IsDict(last.value) \/ IsList(last.value))
                  => (~last.changed /\ yaml_dict = last.pre)

\* put('', {b: 1}) on a document that is not {b: 1}.
C19_Witness ==
    /\ last.op = "put" /\ last.path = <<>> /\ last.changed
    /\ last.value = Dict(kb :> Num(1))
    /\ last.pre # yaml_dict
    /\ yaml_dict = Dict(kb :> Num(1))

\* put('', 5): nothing happens.
C19_WitnessScalar ==
    /\ last.op = "put" /\ last.path = <<>> /\ last.value = Num(5)
    /\ ~last.changed /\ last.exc = "none"

(***************************************************************************)
(* Yedit._write, run by several processes on the same filename, and a      *)
(* process that reads the file.                                            *)
(*   dir     the directory: the inode each of the two names refers to, 0   *)
(*           for a name that does not exist                                *)
(*   inodes  the content of each inode, a sequence of bytes                *)
(*   locks   for each inode, the writer holding its flock, 0 for none      *)
(*   wr      for each writer, its position in _write (pc), the inode its   *)
(*           file object yfd is open on (fd) and the bytes written to yfd  *)
(*           that are still in its buffer (buf)                            *)
(*   seen    what the reader got when it last read the file                *)
(***************************************************************************)
NWriters == 2

Writers == 1..NWriters

\* What the file holds before any writer runs.
Prior == <<0, 0>>

\* The serialized document of writer w: w bytes, each w.
Contents(w) == [i \in 1..w |-> w]

FsIdle ==
    /\ dir = [target |-> 0, tmp |-> 0]
    /\ inodes = <<>>
    /\ locks = <<>>
    /\ wr = <<>>
    /\ seen = <<>>

FsInit ==
    /\ dir = [target |-> 1, tmp |-> 0]
    /\ inodes = <<Prior>>
    /\ locks = <<0>>
    /\ wr = [w \in Writers |-> [pc |-> "start", fd |-> 0, buf |-> <<>>]]
    /\ seen = Prior

\* write(2) of data at offset 0 of a file holding old: the bytes of old past
\* the end of data stay.
Overwrite(old, data) == data \o SubSeq(old, Len(data) + 1, Len(old))

\* open(tmp_filename, 'w'): the file is created, or truncated if it exists.
Open(w) ==
    /\ wr[w].pc = "start"
    /\ IF dir.tmp = 0
       THEN /\ inodes' = Append(inodes, <<>>)
            /\ locks' = Append(locks, 0)
            /\ dir' = [dir EXCEPT !.tmp = Len(inodes) + 1]
            /\ wr' = [wr EXCEPT ![w] = [pc |-> "opened",
                                        fd |-> Len(inodes) + 1, buf |-> <<>>]]
       ELSE /\ inodes' = [inodes EXCEPT ![dir.tmp] = <<>>]
            /\ wr' = [wr EXCEPT ![w] = [pc |-> "opened",
                                        fd |-> dir.tmp, buf |-> <<>>]]
            /\ UNCHANGED <<locks, dir>>
    /\ UNCHANGED <<seen, kvars, rvars, svars, bvars>>

\* A variant of flock without LOCK_NB: the call goes through only once the
\* lock is free.
FlockWaits(w) ==
    /\ wr[w].pc = "opened"
    /\ locks[wr[w].fd] = 0
    /\ locks' = [locks EXCEPT ![wr[w].fd] = w]
    /\ wr' = [wr EXCEPT ![w].pc = "locked"]
    /\ UNCHANGED <<dir, inodes, seen, kvars, rvars, svars, bvars>>

\* fcntl.flock(yfd, LOCK_EX | LOCK_NB): the lock is taken, or the call raises
\* at once, the with statement closes yfd and _write is left.
Flock(w) ==
    /\ wr[w].pc = "opened"
    /\ \/ /\ locks[wr[w].fd] = 0
          /\ locks' = [locks EXCEPT ![wr[w].fd] = w]
          /\ wr' = [wr EXCEPT ![w].pc = "locked"]
       \/ /\ locks[wr[w].fd] # 0
          /\ wr' = [wr EXCEPT ![w].pc = "failed"]
          /\ UNCHANGED locks
    /\ UNCHANGED <<dir, inodes, seen, kvars, rvars, svars, bvars>>

\* yfd.write(contents): the bytes stay in the buffer of yfd, or, when they
\* exceed it, go to the file at once.
Write(w) ==
    /\ wr[w].pc = "locked"
    /\ \/ /\ wr' = [wr EXCEPT ![w].pc = "written", ![w].buf = Contents(w)]
          /\ UNCHANGED inodes
       \/ /\ inodes' = [inodes EXCEPT
                            ![wr[w].fd] = Overwrite(@, Contents(w))]
          /\ wr' = [wr EXCEPT ![w].pc = "written"]
    /\ UNCHANGED <<dir, locks, seen, kvars, rvars, svars, bvars>>

\* fcntl.flock(yfd, LOCK_UN)
Unlock(w) ==
    /\ wr[w].pc = "written"
    /\ locks' = [locks EXCEPT ![wr[w].fd] = 0]
    /\ wr' = [wr EXCEPT ![w].pc = "unlocked"]
    /\ UNCHANGED <<dir, inodes, seen, kvars, rvars, svars, bvars>>

\* The end of the with statement: yfd is closed, which flushes its buffer.
Close(w) ==
    /\ wr[w].pc = "unlocked"
    /\ inodes' = IF wr[w].buf = <<>> THEN inodes
                 ELSE [inodes EXCEPT ![wr[w].fd] = Overwrite(@, wr[w].buf)]
    /\ wr' = [wr EXCEPT ![w].pc = "closed", ![w].buf = <<>>]
    /\ UNCHANGED <<dir, locks, seen, kvars, rvars, svars, bvars>>

\* A variant of the last step of _write that copies the temp name's file to
\* the target name and leaves the temp name in place.
RenameKeepsTemp(w) ==
    /\ wr[w].pc = "closed"
    /\ dir.tmp # 0
    /\ dir' = [dir EXCEPT !.target = dir.tmp]
    /\ wr' = [wr EXCEPT ![w].pc = "done"]
    /\ UNCHANGED <<inodes, locks, seen, kvars, rvars, svars, bvars>>

\* os.rename(tmp_filename, filename): raises when tmp_filename is gone.
Rename(w) ==
    /\ wr[w].pc = "closed"
    /\ \/ /\ dir.tmp # 0
          /\ dir' = [target |-> dir.tmp, tmp |-> 0]
          /\ wr' = [wr EXCEPT ![w].pc = "done"]
       \/ /\ dir.tmp = 0
          /\ wr' = [wr EXCEPT ![w].pc = "failed"]
          /\ UNCHANGED dir
    /\ UNCHANGED <<inodes, locks, seen, kvars, rvars, svars, bvars>>

\* Another process reads the file.
Read ==
    /\ dir.target # 0
    /\ seen' = inodes[dir.target]
    /\ UNCHANGED <<dir, inodes, locks, wr, kvars, rvars, svars, bvars>>

\* The process is interrupted inside _write, after open() and before
\* os.rename(): its lock goes, and what yfd has buffered is flushed (an
\* exception leaving the with statement) or lost (the process killed).
Interrupt(w) ==
    /\ wr[w].pc \in {"opened", "locked", "written", "unlocked", "closed"}
    /\ locks' = [i \in 1..Len(locks) |-> IF locks[i] = w THEN 0 ELSE locks[i]]
    /\ \/ inodes' = IF wr[w].buf = <<>> THEN inodes
                    ELSE [inodes EXCEPT ![wr[w].fd] = Overwrite(@, wr[w].buf)]
       \/ UNCHANGED inodes
    /\ wr' = [wr EXCEPT ![w] = [pc |-> "interrupted", fd |-> 0, buf |-> <<>>]]
    /\ UNCHANGED <<dir, seen, kvars, rvars, svars, bvars>>

\* The number of temp files the calls of one process may create.
MaxWrites == 2

\* _write is called again, after a call that returned, raised or was
\* interrupted.
Again(w) ==
    /\ wr[w].pc \in {"done", "failed", "interrupted"}
    /\ Len(inodes) <= MaxWrites
    /\ wr' = [wr EXCEPT ![w] = [pc |-> "start", fd |-> 0, buf |-> <<>>]]
    /\ UNCHANGED <<dir, inodes, locks, seen, kvars, rvars, svars, bvars>>

\* No process other than w is inside _write.
Solo(w) ==
    \A v \in Writers \ {w} :
        wr[v].pc \in {"start", "done", "failed", "interrupted"}

(***************************************************************************)
(* Properties of the write path (specification SpecWrite)                  *)
(***************************************************************************)
\* C1: what a reader finds in the target file is the complete prior content
\* or the complete serialized document of one writer.
C1_ReaderSeesCompleteFile ==
    seen \in {Prior} \cup {Contents(w) : w \in Writers}

\* The content of the file the target name refers to.
TargetContent == inodes[dir.target]

\* C20, for writers that run one at a time: between open() and os.rename()
\* no step alters what the target name holds, so a write interrupted there
\* leaves the target with its complete content of before; and when _write
\* returns, the temp name is gone and the target holds the serialized
\* document.
C20_TargetReplacedOnlyByRename ==
    /\ [][ (dir'.target # dir.target \/ TargetContent' # TargetContent)
               => \E w \in Writers :
                      wr[w].pc = "closed" /\ wr'[w].pc = "done" ]_vars
    /\ [][ \A w \in Writers :
               (wr[w].pc # "done" /\ wr'[w].pc = "done")
                   => (dir'.tmp = 0 /\ TargetContent' = Contents(w)) ]_vars

\* A write interrupted with bytes in the temp file: the target still holds
\* the prior content.
C20_Witness ==
    /\ \E w \in Writers : wr[w].pc = "interrupted"
    /\ \A w \in Writers : wr[w].pc # "done"
    /\ dir.tmp # 0 /\ inodes[dir.tmp] # <<>>
    /\ TargetContent = Prior

\* A write that went through after an interrupted one.
C20_WitnessDone ==
    /\ wr[1].pc = "interrupted"
    /\ wr[2].pc = "done" /\ dir.tmp = 0
    /\ TargetContent = Contents(2)

\* The steps of _write in process w.
WriterStep(w) ==
    Open(w) \/ Flock(w) \/ Write(w) \/ Unlock(w) \/ Close(w) \/ Rename(w)

\* _write has returned or raised in process w.
Returned(w) == wr[w].pc \in {"done", "failed"}

\* C21: the flock call never waits: it can be taken at once whoever holds
\* the lock, and with the lock held by another process it raises; every
\* call of _write returns or raises, in every interleaving.
C21_WriteNeverBlocks ==
    /\ [](\A w \in Writers : wr[w].pc = "opened" => ENABLED Flock(w))
    /\ [][ \A w \in Writers :
               (wr[w].pc = "opened" /\ wr'[w].pc # "opened"
                    /\ locks[wr[w].fd] # 0)
                   => wr'[w].pc = "failed" ]_vars
    /\ \A w \in Writers : <>Returned(w)

\* A process whose flock raised while another one holds the lock.
C21_Witness ==
    \E w, v \in Writers :
        /\ wr[w].pc = "failed"
        /\ wr[v].pc \in {"locked", "written"}
        /\ locks[wr[v].fd] = v

(***************************************************************************)
(* Properties of the key parser (specification SpecKey)                    *)
(***************************************************************************)
\* The key characters of the documented grammar.
GrammarClass == AlNum \cup {"%", "/", "_", "-"}

\* Whether s from i on is made of tokens (a bracketed index or a run of key
\* characters), separated by nothing or by one sp, with nothing after the
\* last token.
RECURSIVE InGrammar(_, _, _)
InGrammar(s, i, sp) ==
    \E j \in TokenEnds(s, i, GrammarClass) :
        \/ j = Len(s) + 1
        \/ InGrammar(s, j, sp)
        \/ (j <= Len(s) /\ s[j] = sp /\ InGrammar(s, j + 1, sp))

\* C8: valid_key accepts exactly the keys of the grammar; checked on the
\* keys that hold none of the reserved characters other than the separator.
C8_ValidIffGrammar ==
    (kpc \in {"validated", "parsed"}
         /\ \A i \in 1..Len(key) : key[i] \notin com_sep \ {sep})
        => (kvalid <=> InGrammar(key, 1, sep))

\* C9: for a key valid_key accepts, parse_key returns the tokens in order,
\* a run of key characters (the % included) as one step.
C9_ParseKeepsTokens ==
    (kpc = "parsed" /\ kvalid)
        => ksteps = FindAll(key, 1, GrammarClass \cup (com_sep \ {sep}))

\* The non-empty pieces of s between the occurrences of sp, in order.
RECURSIVE SplitOn(_, _)
SplitOn(s, sp) ==
    IF s = <<>> THEN <<>>
    ELSE LET r == RunEnd(s, 1, {s[i] : i \in 1..Len(s)} \ {sp})
         IN  (IF r > 1 THEN <<SubSeq(s, 1, r - 1)>> ELSE <<>>)
                 \o SplitOn(SubSeq(s, r + 1, Len(s)), sp)

\* Keys made of key characters and reserved characters only.
Plain(s) == \A i \in 1..Len(s) : s[i] \in AlNum \cup {"/", "_", "-"} \cup com_sep

\* Plain keys in which every reserved character stands between two key
\* characters.
Separated(s) ==
    /\ s # <<>>
    /\ Plain(s)
    /\ s[1] \notin com_sep
    /\ s[Len(s)] \notin com_sep
    /\ \A i \in 1..(Len(s) - 1) : ~(s[i] \in com_sep /\ s[i + 1] \in com_sep)

\* C10: of the four reserved characters only the active separator splits a
\* key: parse_key yields the pieces between the occurrences of sep as map
\* keys, the other reserved characters staying inside them, and valid_key
\* accepts the key.
C10_OnlyActiveSeparatorSplits ==
    /\ (kpc = "parsed" /\ Plain(key))
           => ksteps = [i \in 1..Len(SplitOn(key, sep)) |->
                            [ai |-> <<>>, dk |-> SplitOn(key, sep)[i]]]
    /\ (kpc \in {"validated", "parsed"} /\ Separated(key)) => kvalid

\* With separator #, a#b is the key a then the key b.
C10_Witness ==
    /\ kpc = "parsed" /\ sep = "#" /\ key = <<"a", "#", "b">>
    /\ kvalid
    /\ ksteps = <<[ai |-> <<>>, dk |-> <<"a">>], [ai |-> <<>>, dk |-> <<"b">>]>>

(***************************************************************************)
(* process_edits: a batch of edits applied to one Yedit, one edit per turn *)
(* of the loop.                                                            *)
(*   edits    the batch                                                    *)
(*   epos     the number of edits the loop has gone through                *)
(*   results  the records appended so far: the key of the edit and rval[1],*)
(*            a reference to the tree object self.yaml_dict was then (obj);*)
(*            edit is what that object holds now                           *)
(*   curobj   the tree object self.yaml_dict is now                        *)
(*   bexc     the exception that ended the loop, "none" while there is none*)
(***************************************************************************)
MaxEdits == 2

true_bools ==
    { <<"y">>, <<"Y">>, <<"y", "e", "s">>, <<"Y", "e", "s">>, <<"Y", "E", "S">>,
      <<"t", "r", "u", "e">>, <<"T", "r", "u", "e">>, <<"T", "R", "U", "E">>,
      <<"o", "n">>, <<"O", "n">>, <<"O", "N">> }

false_bools ==
    { <<"n">>, <<"N">>, <<"n", "o">>, <<"N", "o">>, <<"N", "O">>,
      <<"f", "a", "l", "s", "e">>, <<"F", "a", "l", "s", "e">>,
      <<"F", "A", "L", "S", "E">>,
      <<"o", "f", "f">>, <<"O", "f", "f">>, <<"O", "F", "F">> }

\* yaml.safe_load of a one-line string, for the strings the edits carry: a
\* YAML 1.1 boolean word (the one-letter words are plain strings), a run of
\* digits, a null word, an unclosed flow sequence, or a plain string.
yaml_safe_load(s) ==
    IF s \in true_bools \ {<<"y">>, <<"Y">>} THEN Ret(Bool(TRUE))
    ELSE IF s \in false_bools \ {<<"n">>, <<"N">>} THEN Ret(Bool(FALSE))
    ELSE IF s # <<>> /\ \A i \in 1..Len(s) : s[i] \in Digits THEN Ret(Num(ToInt(s)))
    ELSE IF s \in {<<"~">>, <<"n", "u", "l", "l">>} THEN Ret(Null)
    ELSE IF s = <<"[">> THEN Raise("YAMLError")
    ELSE Ret(Str(s))

\* 'str' in vtype, 'bool' in vtype: vtype is "", "str" or "bool" for a
\* value, and "yaml", "json" or "xml" for a content, none of which holds
\* either word.
InType(word, vtype) == vtype = word

parse_value(inc_value, vtype) ==
    LET v == IF inc_value.t = "bool" /\ InType("str", vtype)
             THEN Str(IF inc_value.v THEN <<"T", "r", "u", "e">>
                      ELSE <<"F", "a", "l", "s", "e">>)
             ELSE inc_value
    IN  IF /\ inc_value.t = "str" /\ InType("bool", vtype)
           /\ inc_value.v \notin true_bools \cup false_bools
        THEN Raise("YeditException")
        ELSE IF v.t = "str" /\ v.v = <<>> THEN Ret(v)
        ELSE IF v.t = "str" /\ ~InType("str", vtype)
        THEN IF yaml_safe_load(v.v).exc # "none" THEN Raise("YeditException")
             ELSE yaml_safe_load(v.v)
        ELSE Ret(v)

\* The edits give no curr_value_format, or yaml.
get_curr_value(invalue, val_type) ==
    IF invalue = Null THEN Ret(Null)
    ELSE IF val_type = "yaml" THEN yaml_safe_load(invalue.v)
    ELSE Ret(invalue)

\* An edit: edit['key'], edit['value'] and what edit.get() finds.
Edit(action, k, value, value_type, index, curr_value) ==
    [action |-> action, key |-> k, value |-> value, value_type |-> value_type,
     index |-> index, curr_value |-> curr_value]

\* One turn of the loop on the tree doc: the value is parsed, then the
\* operation the action names is called.
ApplyEdit(doc, edit) ==
    LET v  == parse_value(edit.value, edit.value_type)
        c  == parse_value(edit.curr_value, "")
        cv == get_curr_value(c.val, "")
    IN  IF v.exc # "none" THEN Raised(v.exc, doc)
        ELSE IF edit.action = "update"
        THEN IF c.exc # "none" THEN Raised(c.exc, doc)
             ELSE IF cv.exc # "none" THEN Raised(cv.exc, doc)
             ELSE update(doc, edit.key, v.val, edit.index, cv.val)
        ELSE IF edit.action = "append" THEN append(doc, edit.key, v.val)
        ELSE put(doc, edit.key, v.val)

\* A variant of the loop that takes the edits from the last to the first.
NextEditReversed(es, n) == es[Len(es) - n]

\* for edit in edits: the edit of the turn after n turns.
NextEdit(es, n) == es[n + 1]

\* The edits of the batches.
BatchEdits ==
    { Edit("put", <<"a">>, Num(5), "", Null, Null),
      Edit("put", <<"a">>, Str(<<"7">>), "", Null, Null),
      Edit("put", <<"a">>, Str(<<"7">>), "str", Null, Null),
      Edit("put", <<"a", ".", "b">>, Num(1), "", Null, Null),
      Edit("put", <<>>, Num(5), "", Null, Null),
      Edit("put", <<"a">>, Str(<<"x">>), "bool", Null, Null),
      Edit("append", <<"a">>, Num(1), "", Null, Null),
      Edit("update", <<"a">>, Num(5), "", Null, Str(<<"2">>)) }

\* The batches: the sequences of at most MaxEdits edits.
Batches == UNION {[1..n -> BatchEdits] : n \in 0..MaxEdits}

BatchDocs ==
    { EmptyDict,
      Dict(ka :> List(<<Num(1), Num(2)>>)),
      Dict(ka :> Dict(kb :> Num(1))) }

BatchIdle ==
    /\ edits = <<>>
    /\ epos = 0
    /\ results = <<>>
    /\ curobj = 0
    /\ bexc = "none"

BatchInit ==
    /\ edits \in Batches
    /\ epos = 0
    /\ results = <<>>
    /\ curobj = 0
    /\ bexc = "none"

\* One turn of the loop. The operations hand out self.yaml_dict itself:
\* the records that refer to the object the store held before the call show
\* what the call made of that object (out.old); put installs a new object.
ProcessEdit ==
    /\ bexc = "none"
    /\ epos < Len(edits)
    /\ \E edit \in {NextEdit(edits, epos)} :
       \E out \in {ApplyEdit(yaml_dict, edit)} :
       \E obj \in {IF out.old # out.doc THEN curobj + 1 ELSE curobj} :
           LET seen_now == [j \in 1..Len(results) |->
                                IF results[j].obj = curobj
                                THEN [results[j] EXCEPT !.edit = out.old]
                                ELSE results[j]]
           IN  /\ yaml_dict' = out.doc
               /\ curobj' = obj
               /\ bexc' = out.exc
               /\ epos' = IF out.exc = "none" THEN epos + 1 ELSE epos
               /\ results' = IF out.exc = "none" /\ out.changed
                             THEN Append(seen_now, [key |-> edit.key,
                                                    edit |-> out.doc,
                                                    obj |-> obj])
                             ELSE seen_now
    /\ UNCHANGED <<edits, last, held, nops, kvars, rvars, wvars>>

\* return {'changed': len(results) > 0, 'results': results}
process_edits_return ==
    [changed |-> Len(results) > 0, results |-> results]

\* The tree after the first k edits of es applied one after the other to
\* doc, and whether the k-th of them changed it.
RECURSIVE DocAfter(_, _, _)
DocAfter(doc, es, k) ==
    IF k = 0 THEN doc ELSE ApplyEdit(DocAfter(doc, es, k - 1), es[k]).doc

ChangedAt(doc, es, k) == ApplyEdit(DocAfter(doc, es, k - 1), es[k]).changed

\* The keys of those of the first k edits that changed the tree, in order.
RECURSIVE KeysOfChanged(_, _, _)
KeysOfChanged(doc, es, k) ==
    IF k = 0 THEN <<>>
    ELSE KeysOfChanged(doc, es, k - 1)
             \o (IF ChangedAt(doc, es, k) THEN <<es[k].key>> ELSE <<>>)

\* The last two edits gone through put different values at the same key.
TwoPuts ==
    /\ bexc = "none" /\ epos >= 2
    /\ edits[epos - 1].action = "put" /\ edits[epos].action = "put"
    /\ edits[epos - 1].key = edits[epos].key
    /\ edits[epos].key # <<>>
    /\ parse_value(edits[epos - 1].value, edits[epos - 1].value_type)
           # parse_value(edits[epos].value, edits[epos].value_type)

\* C18: the edits are applied in the order of the batch, each to the
\* document the edits before it left; of two puts of different values at
\* one key the second value stays; the result records are those of the
\* edits that changed the document, in the order of the batch.
C18_EditsInOrder ==
    bexc = "none"
        => /\ yaml_dict = DocAfter(last.pre, edits, epos)
           /\ [j \in 1..Len(results) |-> results[j].key]
                  = KeysOfChanged(last.pre, edits, epos)
           /\ TwoPuts
                  => Target(yaml_dict, edits[epos].key)
                         = parse_value(edits[epos].value,
                                       edits[epos].value_type).val

\* put a = 5 then put a = '7': the document holds 7 and there are two
\* records.
C18_Witness ==
    /\ TwoPuts /\ epos = Len(edits)
    /\ last.pre = EmptyDict
    /\ yaml_dict = Dict(ka :> Num(7))
    /\ Len(results) = 2

(***************************************************************************)
(* Files: read, load, write, and the construction of a Yedit on a file.    *)
(* The text of a file is what a dump wrote: the format and the tree; a     *)
(* file may also be empty, or hold a text no YAML parser accepts.          *)
(***************************************************************************)
MaxClock == 1

Text(fmt, tree) == [fmt |-> fmt, tree |-> tree]

\* No file under the name; read() answers None.
NoFile == Text("absent", Null)

\* A file of length 0.
EmptyText == Text("empty", Null)

\* A text that is not YAML.
BadText == Text("bad", Null)

\* yaml.dump / yaml.safe_dump / json.dumps of the tree.
dump(doc, content_type) == Text(content_type, doc)

\* yaml.load / yaml.safe_load of a file's text; a JSON text is YAML too.
yaml_load(contents) ==
    IF contents.fmt = "bad" THEN Raise("YAMLError") ELSE Ret(contents.tree)

\* json.loads of a file's text: a YAML text is JSON when it is the flow
\* form of an empty collection.
json_loads(contents) ==
    IF contents.fmt = "json"
           \/ (contents.fmt = "yaml" /\ contents.tree \in {EmptyDict, EmptyList})
    THEN Ret(contents.tree)
    ELSE Raise("ValueError")

\* None, where a filename is expected.
NoName == <<>>

file_exists(fs, filename) == fs[filename] # NoFile

read(fs, filename) ==
    IF filename = NoName \/ ~file_exists(fs, filename) THEN NoFile
    ELSE fs[filename]

\* load on a Yedit built without content: the value returned (val) and
\* self.yaml_dict after the call.
load(fs, filename, content_type, doc) ==
    LET contents == read(fs, filename)
    IN  IF contents \in {NoFile, EmptyText}
        THEN [exc |-> "none", val |-> Null, yaml_dict |-> doc]
        ELSE IF content_type = "yaml"
        THEN IF yaml_load(contents).exc # "none"
             THEN [exc |-> "YeditException", val |-> Null, yaml_dict |-> doc]
             ELSE [exc |-> "none", val |-> yaml_load(contents).val,
                   yaml_dict |-> yaml_load(contents).val]
        ELSE IF content_type = "json"
        THEN IF json_loads(contents).exc # "none"
             THEN [exc |-> json_loads(contents).exc, val |-> Null,
                   yaml_dict |-> doc]
             ELSE [exc |-> "none", val |-> json_loads(contents).val,
                   yaml_dict |-> json_loads(contents).val]
        ELSE [exc |-> "none", val |-> doc, yaml_dict |-> doc]

\* Yedit(filename=..., content_type=...): the tree the new object holds.
Construct(fs, filename, content_type) ==
    LET l == load(fs, filename, content_type, Null)
    IN  [exc |-> l.exc,
         yaml_dict |-> IF l.yaml_dict = Null THEN EmptyDict ELSE l.yaml_dict]

\* '{}.{}'.format(self.filename, time.strftime("%Y%m%dT%H%M%S")) at second now.
BackupName(filename, now) == Append(filename, now)

\* What was done to a file: a copy to the path, or a rename of the written
\* temp file over the path.
Copied(path, text) == [op |-> "copy", path |-> path, text |-> text]

Renamed(path, text) == [op |-> "rename", path |-> path, text |-> text]

\* Yedit._write run by a process on its own: the temp file is written and
\* renamed over filename.
WriteAndRename(fs, filename, contents) == [fs EXCEPT ![filename] = contents]

\* A variant of write that takes the backup after the file is replaced.
WriteBackupLast(fs, filename, backup, content_type, doc, now) ==
    IF filename = NoName \/ content_type \notin {"yaml", "json"}
    THEN [exc |-> "YeditException", fs |-> fs, log |-> <<>>]
    ELSE LET fs1 == WriteAndRename(fs, filename, dump(doc, content_type))
         IN  IF backup /\ file_exists(fs, filename)
             THEN [exc |-> "none",
                   fs |-> [fs1 EXCEPT ![BackupName(filename, now)] = fs1[filename]],
                   log |-> <<Renamed(filename, fs1[filename]),
                             Copied(BackupName(filename, now), fs1[filename])>>]
             ELSE [exc |-> "none", fs |-> fs1,
                   log |-> <<Renamed(filename, fs1[filename])>>]

\* write: the files after the call and what was done to them, in order.
write(fs, filename, backup, content_type, doc, now) ==
    IF filename = NoName
    THEN [exc |-> "YeditException", fs |-> fs, log |-> <<>>]
    ELSE LET copy == backup /\ file_exists(fs, filename)
             fs1 == IF copy
                    THEN [fs EXCEPT ![BackupName(filename, now)] = fs[filename]]
                    ELSE fs
             log1 == IF copy
                     THEN <<Copied(BackupName(filename, now), fs[filename])>>
                     ELSE <<>>
         IN  IF content_type \in {"yaml", "json"}
             THEN [exc |-> "none",
                   fs |-> WriteAndRename(fs1, filename, dump(doc, content_type)),
                   log |-> Append(log1, Renamed(filename, dump(doc, content_type)))]
             ELSE [exc |-> "YeditException", fs |-> fs1, log |-> log1]

(***************************************************************************)
(* Yedit.run_ansible: a request is taken, the Yedit is built on the source *)
(* file and the request is answered; a request with edits goes through     *)
(* process_edits turn by turn and is answered after the loop.              *)
(***************************************************************************)
\* The source file of the requests.
Src == <<"f">>

\* A response, or the exception that left run_ansible. With records the
\* result is the list process_edits made.
Ok(changed, result) ==
    [kind |-> "ok", changed |-> changed, result |-> result,
     records |-> FALSE, msg |-> ""]

OkRecords(changed) ==
    [kind |-> "ok", changed |-> changed, result |-> Null,
     records |-> TRUE, msg |-> ""]

FailedResp(msg) ==
    [kind |-> "failed", changed |-> FALSE, result |-> Null,
     records |-> FALSE, msg |-> msg]

Crashed(exc) ==
    [kind |-> "exc", changed |-> FALSE, result |-> Null,
     records |-> FALSE, msg |-> exc]

NoResp ==
    [kind |-> "none", changed |-> FALSE, result |-> Null,
     records |-> FALSE, msg |-> ""]

\* rval before anything was assigned to it.
Unbound == [t |-> "unbound", v |-> 0]

\* run_ansible has returned or raised: the response, the files, what was
\* done to them and the tree the Yedit holds.
Stop(r, fs, log, doc) ==
    [pc |-> "done", resp |-> r, fs |-> fs, log |-> log, doc |-> doc,
     edits |-> <<>>]

\* run_ansible is about to call process_edits.
ToEdits(fs, doc, es) ==
    [pc |-> "edits", resp |-> NoResp, fs |-> fs, log |-> <<>>, doc |-> doc,
     edits |-> es]

\* A variant of the test before write that leaves out what the operation
\* reported.
ShouldWriteWithSrc(changed, src) == src # NoName

\* if rval[0] and params['src'] / if results['changed'] and params['src']
ShouldWrite(changed, src) == changed /\ src # NoName

\* yamlfile.write() and the response that follows it.
WriteThen(fs, p, doc, now, r) ==
    LET w == write(fs, p.src, p.backup, p.content_type, doc, now)
    IN  IF w.exc # "none" THEN Stop(Crashed(w.exc), w.fs, w.log, doc)
        ELSE Stop(r, w.fs, w.log, doc)

\* if params['content']: the parsed content replaces the tree.
WithContent(p, doc) ==
    IF Truthy(p.content) THEN parse_value(p.content, p.content_type)
    ELSE Ret(doc)

StateList(fs, p, doc, rval) ==
    LET c == WithContent(p, doc)
        g == get(c.val, p.key)
    IN  IF c.exc # "none" THEN Stop(Crashed(c.exc), fs, <<>>, doc)
        ELSE IF p.key # <<>>
        THEN IF g.exc # "none" THEN Stop(Crashed(g.exc), fs, <<>>, c.val)
             ELSE Stop(Ok(FALSE, g.val), fs, <<>>, c.val)
        ELSE IF rval = Unbound
        THEN Stop(Crashed("UnboundLocalError"), fs, <<>>, c.val)
        ELSE Stop(Ok(FALSE, rval), fs, <<>>, c.val)

StateAbsent(fs, p, doc, now) ==
    LET c == WithContent(p, doc)
        r == IF p.update THEN pop(c.val, p.key, p.value)
             ELSE delete(c.val, p.key, p.index, p.value)
    IN  IF c.exc # "none" THEN Stop(Crashed(c.exc), fs, <<>>, doc)
        ELSE IF r.exc # "none" THEN Stop(Crashed(r.exc), fs, <<>>, r.doc)
        ELSE IF ShouldWrite(r.changed, p.src)
        THEN WriteThen(fs, p, r.doc, now, Ok(r.changed, r.doc))
        ELSE Stop(Ok(r.changed, r.doc), fs, <<>>, r.doc)

\* The edits of a request in state present: the one made of key and value,
\* or params['edits'].
EditsOf(p) ==
    IF p.value # Null
    THEN <<Edit(IF p.update THEN "update"
                ELSE IF p.append THEN "append" ELSE "put",
                p.key, p.value, p.value_type,
                IF p.update THEN p.index ELSE Null,
                IF p.update THEN p.curr_value ELSE Null)>>
    ELSE p.edits

StatePresent(fs, p, doc, now) ==
    LET c == WithContent(p, doc)
        es == EditsOf(p)
    IN  IF c.exc # "none" THEN Stop(Crashed(c.exc), fs, <<>>, doc)
        ELSE IF Truthy(p.content) /\ PyEq(doc, c.val) /\ p.value = Null
        THEN Stop(Ok(FALSE, doc), fs, <<>>, doc)
        ELSE IF es # <<>> THEN ToEdits(fs, c.val, es)
        ELSE IF p.src # NoName
        THEN WriteThen(fs, p, c.val, now, Ok(TRUE, c.val))
        ELSE Stop(Ok(FALSE, c.val), fs, <<>>, c.val)

\* run_ansible up to its return, or up to the call of process_edits.
Begin(fs, p, now) ==
    LET y == Construct(fs, p.src, p.content_type)
        l == IF p.src # NoName THEN load(fs, p.src, "yaml", y.yaml_dict)
             ELSE [exc |-> "none", val |-> Unbound, yaml_dict |-> y.yaml_dict]
    IN  IF y.exc # "none" THEN Stop(Crashed(y.exc), fs, <<>>, y.yaml_dict)
        ELSE IF l.exc # "none" THEN Stop(Crashed(l.exc), fs, <<>>, l.yaml_dict)
        ELSE IF p.src # NoName /\ l.yaml_dict = Null /\ p.state # "present"
        THEN Stop(FailedResp("Error opening file"), fs, <<>>, l.yaml_dict)
        ELSE IF p.state = "list" THEN StateList(fs, p, l.yaml_dict, l.val)
        ELSE IF p.state = "absent" THEN StateAbsent(fs, p, l.yaml_dict, now)
        ELSE IF p.state = "present" THEN StatePresent(fs, p, l.yaml_dict, now)
        ELSE Stop(FailedResp("Unkown state passed"), fs, <<>>, l.yaml_dict)

\* A variant of the end of run_ansible that goes on to the write when an
\* edit raised.
AfterEditsNoRaise(fs, p, doc, exc, changed, now) ==
    IF ShouldWrite(changed, p.src)
    THEN WriteThen(fs, p, doc, now, OkRecords(changed))
    ELSE Stop(OkRecords(changed), fs, <<>>, doc)

\* run_ansible after process_edits: an exception of an edit leaves
\* run_ansible; otherwise the file is written when there were changes and a
\* src was given.
AfterEdits(fs, p, doc, exc, changed, now) ==
    IF exc # "none" THEN Stop(Crashed(exc), fs, <<>>, doc)
    ELSE IF ShouldWrite(changed, p.src)
    THEN WriteThen(fs, p, doc, now, OkRecords(changed))
    ELSE Stop(OkRecords(changed), fs, <<>>, doc)

\* The requests. The separator is '.' in all of them.
BaseRequest ==
    [src |-> NoName, backup |-> FALSE, content_type |-> "yaml",
     state |-> "present", content |-> Null, key |-> <<>>, value |-> Null,
     value_type |-> "", update |-> FALSE, append |-> FALSE, index |-> Null,
     curr_value |-> Null, edits |-> <<>>]

Srcs == {NoName, Src}

ContentTypes == {"yaml", "json", "xml"}

RequestContents == {Null, Dict(ka :> List(<<Num(1), Num(2)>>))}

ListRequests ==
    { [BaseRequest EXCEPT !.state = "list", !.src = s, !.content = c,
                          !.key = k, !.content_type = t] :
          s \in Srcs, c \in RequestContents, k \in {<<>>, <<"a">>},
          t \in {"yaml", "xml"} }

AbsentRequests ==
    { [BaseRequest EXCEPT !.state = "absent", !.src = s, !.backup = b,
                          !.content_type = t, !.update = u, !.key = k,
                          !.value = v] :
          s \in Srcs, b \in BOOLEAN, t \in {"yaml", "xml"}, u \in BOOLEAN,
          k \in {<<"a">>, <<"a", ".", "b">>}, v \in {Null, Num(1)} }

\* The edits of the requests: three that can fail (the value is no boolean
\* word, the target is a mapping and the value is not, the path runs into a
\* sequence) and one that cannot.
RequestEdits ==
    { Edit("put", <<"c">>, Num(5), "", Null, Null),
      Edit("put", <<"a", ".", "b">>, Num(1), "", Null, Null),
      Edit("put", <<"a">>, Str(<<"x">>), "bool", Null, Null),
      Edit("update", <<"a">>, Num(5), "", Null, Null) }

RequestBatches == UNION {[1..n -> RequestEdits] : n \in 1..MaxEdits}

EditRequests ==
    { [BaseRequest EXCEPT !.src = s, !.backup = TRUE, !.edits = es] :
          s \in Srcs, es \in RequestBatches }

ValueRequests ==
    { [BaseRequest EXCEPT !.src = s, !.content_type = t, !.key = <<"a">>,
                          !.value = v, !.value_type = vt,
                          !.update = (a = "update"),
                          !.append = (a = "append")] :
          s \in Srcs, t \in ContentTypes, v \in {Num(5), Str(<<"x">>)},
          vt \in {"", "bool"}, a \in {"put", "update", "append"} }

PlainRequests ==
    { [BaseRequest EXCEPT !.src = s, !.backup = b, !.content_type = t,
                          !.content = c, !.edits = es] :
          s \in Srcs, b \in BOOLEAN, t \in ContentTypes, c \in RequestContents,
          es \in {<<>>, <<Edit("put", <<"c">>, Num(5), "", Null, Null)>>} }

Requests ==
    ListRequests \cup AbsentRequests \cup EditRequests \cup ValueRequests
        \cup PlainRequests \cup {[BaseRequest EXCEPT !.state = "other"]}

\* What the source file holds when the request arrives.
SrcTexts ==
    {NoFile, EmptyText, BadText, Text("yaml", Null),
     Text("json", Dict(ka :> Dict(kb :> Num(1))))}
        \cup {Text("yaml", d) : d \in BatchDocs}

\* A backup an earlier request left in second 0.
OldBackup == Text("yaml", Dict(kd :> Num(0)))

FilePaths == {Src} \cup {BackupName(Src, n) : n \in 0..MaxClock}

RunIdle ==
    /\ files = <<>>
    /\ clock = 0
    /\ params = BaseRequest
    /\ rpc = "idle"
    /\ resp = NoResp
    /\ fslog = <<>>

RunInit ==
    /\ \E s \in SrcTexts, o \in {NoFile, OldBackup} :
           files = [n \in FilePaths |->
                        IF n = Src THEN s
                        ELSE IF n = BackupName(Src, 0) THEN o ELSE NoFile]
    /\ clock \in 0..MaxClock
    /\ params = BaseRequest
    /\ rpc = "idle"
    /\ resp = NoResp
    /\ fslog = <<>>

\* run_ansible(params), up to its return or to the loop of process_edits.
RunAnsible ==
    /\ rpc = "idle"
    /\ \E p \in Requests :
       \E o \in {Begin(files, p, clock)} :
           /\ params' = p
           /\ rpc' = o.pc
           /\ resp' = o.resp
           /\ files' = o.fs
           /\ fslog' = o.log
           /\ yaml_dict' = o.doc
           /\ last' = NoCall(o.doc)
           /\ edits' = o.edits
    /\ UNCHANGED <<clock, held, nops, epos, results, curobj, bexc, kvars, wvars>>

\* run_ansible from the return of process_edits, or from the exception an
\* edit raised, to its end.
RunAnsibleEnd ==
    /\ rpc = "edits"
    /\ bexc # "none" \/ epos = Len(edits)
    /\ \E o \in {AfterEdits(files, params, yaml_dict, bexc,
                            process_edits_return.changed, clock)} :
           /\ rpc' = o.pc
           /\ resp' = o.resp
           /\ files' = o.fs
           /\ fslog' = fslog \o o.log
    /\ UNCHANGED <<clock, params, svars, bvars, kvars, wvars>>

(***************************************************************************)
(* Properties of run_ansible and of the files (specification SpecRun)      *)
(***************************************************************************)
\* What the step did to the files, in order.
NewLog == SubSeq(fslog', Len(fslog) + 1, Len(fslog'))

\* The step replaced the source file: a write went through.
Replaced == \E i \in 1..Len(NewLog) : NewLog[i].op = "rename"

\* The names a backup of the source file can have.
BackupPaths == FilePaths \ {Src}

\* C22: with backup set and the file there, write first copies the file to
\* filename.timestamp and then replaces it, so that after the write the
\* backup holds what the file held before; without backup, or without a
\* file, no backup file is made or touched.
C22_BackupBeforeReplace ==
    [][ /\ Replaced =>
            IF params'.backup /\ file_exists(files, Src)
            THEN /\ NewLog = <<Copied(BackupName(Src, clock), files[Src]),
                               Renamed(Src, files'[Src])>>
                 /\ files'[BackupName(Src, clock)] = files[Src]
            ELSE NewLog = <<Renamed(Src, files'[Src])>>
        /\ ~(params'.backup /\ file_exists(files, Src)) =>
               /\ \A n \in BackupPaths : files'[n] = files[n]
               /\ \A i \in 1..Len(NewLog) : NewLog[i].op # "copy" ]_vars

\* A request with backup was answered: the backup of this second holds what
\* the file held, and the file holds something else.
C22_Witness ==
    /\ rpc = "done" /\ resp.kind = "ok" /\ params.backup
    /\ Len(fslog) = 2
    /\ fslog[1] = Copied(BackupName(Src, clock), files[BackupName(Src, clock)])
    /\ fslog[2] = Renamed(Src, files[Src])
    /\ files[Src] # files[BackupName(Src, clock)]

\* A request on a source file whose content type is neither yaml nor json
\* was handled: the Yedit was built and load was called.
UnknownTypeHandled ==
    /\ rpc = "done"
    /\ params.src # NoName
    /\ params.state \in {"list", "absent", "present"}
    /\ params.content_type \notin {"yaml", "json"}

\* C23: with a content type other than yaml and json, load and write raise
\* the failure for an unsupported content type: no document is handed out
\* and the file is not replaced.
C23_UnknownContentTypeFails ==
    UnknownTypeHandled
        => /\ resp.kind = "exc" /\ resp.msg = "YeditException"
           /\ \A i \in 1..Len(fslog) : fslog[i].op # "rename"

\* The step ends run_ansible.
Answers == rpc # "done" /\ rpc' = "done"

EditFailed == rpc \in {"edits", "done"} /\ bexc # "none"

\* C27: when an edit raises, the loop stops there: the edits after it are
\* not applied, the edits before it stay applied to the document the Yedit
\* holds, and run_ansible ends with the exception without writing, so the
\* files are as they were.
C27_FailedEditStopsBatch ==
    /\ [](EditFailed =>
              /\ epos < Len(edits)
              /\ yaml_dict = DocAfter(last.pre, edits, epos)
              /\ ApplyEdit(yaml_dict, edits[epos + 1]).exc = bexc
              /\ fslog = <<>>
              /\ rpc = "done" => resp = Crashed(bexc))
    /\ [][ (bexc # "none" \/ bexc' # "none") =>
               /\ files' = files
               /\ bexc # "none" => (epos' = epos /\ yaml_dict' = yaml_dict) ]_vars

\* The second of two edits raised after the first changed the document;
\* the request had a src and has ended.
C27_Witness ==
    /\ rpc = "done" /\ bexc = "YeditException"
    /\ params.src = Src
    /\ Len(edits) = 2 /\ epos = 1 /\ Len(results) = 1
    /\ yaml_dict # last.pre
    /\ files[Src] = dump(last.pre, "yaml")

\* C30: a request in state list or absent whose src names no file, and that
\* carries no content, is answered with the failure 'Error opening file'.
C30_MissingFileFails ==
    [][ (/\ Answers
         /\ params'.state \in {"list", "absent"}
         /\ params'.src = Src /\ ~file_exists(files, Src)
         /\ params'.content = Null)
            => resp' = FailedResp("Error opening file") ]_vars

(***************************************************************************)
(* CAServerCert: exists, create, get and run_ansible of the module that    *)
(* wraps oc adm ca create-server-cert. Strings are sequences of tokens: a  *)
(* host name without ':' and ',' is one token, ':' and ',' are tokens.     *)
(***************************************************************************)
MaxHosts == 2

\* str.split(c): the pieces between the occurrences of c, empty ones kept.
RECURSIVE Split(_, _)
Split(s, c) ==
    IF \A i \in 1..Len(s) : s[i] # c THEN <<s>>
    ELSE LET n == CHOOSE i \in 1..Len(s) :
                      s[i] = c /\ \A j \in 1..(i - 1) : s[j] # c
         IN  <<SubSeq(s, 1, n - 1)>> \o Split(SubSeq(s, n + 1, Len(s)), c)

\* ','.join(strs)
RECURSIVE Join(_)
Join(strs) ==
    IF strs = <<>> THEN <<>>
    ELSE IF Len(strs) = 1 THEN strs[1]
    ELSE strs[1] \o <<",">> \o Join(Tail(strs))

\* [host for host in params['hostnames'] if isinstance(host, string_types)]
RECURSIVE Strings(_)
Strings(hs) ==
    IF hs = <<>> THEN <<>>
    ELSE (IF hs[1].t = "str" THEN <<hs[1].v>> ELSE <<>>) \o Strings(Tail(hs))

\* The certificate file: a certificate whose Subject Alternative Name line
\* holds the entries san, one without that extension, or a file openssl
\* x509 does not read.
Certificate(san) == [fmt |-> "cert", tree |-> san]

NoSan == [fmt |-> "nosan", tree |-> <<>>]

NotCert == [fmt |-> "garbage", tree |-> <<>>]

NewKey == [fmt |-> "key", tree |-> <<1>>]

OldKey == [fmt |-> "key", tree |-> <<0>>]

\* An entry of the line: 'DNS:name', 'IP Address:name', 'email:name'.
Entry(kind, name) == <<kind, ":">> \o name

\* entry.split(':')[1] of the entries that start with DNS or IP Address.
RECURSIVE CertNames(_)
CertNames(san) ==
    IF san = <<>> THEN <<>>
    ELSE (IF san[1][1] \in {"DNS", "IP Address"}
          THEN <<Split(san[1], ":")[2]>> ELSE <<>>) \o CertNames(Tail(san))

\* CAServerCert.exists; hostnames is config_options['hostnames']['value'].
cert_exists(fs, cert_path, hostnames) ==
    /\ fs[cert_path] # NoFile
    /\ fs[cert_path].fmt = "cert"
    /\ LET cert_names == CertNames(fs[cert_path].tree)
           cert_set == {cert_names[i] : i \in 1..Len(cert_names)}
           hnames == Split(hostnames, ",")
           hname_set == {hnames[i] : i \in 1..Len(hnames)}
       IN  cert_set \subseteq hname_set /\ hname_set \subseteq cert_set

\* CAServerCert.get
cert_get(fs, cert_path) ==
    IF cert_path # NoName /\ fs[cert_path] # NoFile THEN fs[cert_path]
    ELSE NoFile

\* date_str % path: path_timestamp
StampedName(path, now) == path \o <<"_", now>>

\* The command was run and ended with returncode.
Ran(path, returncode) == [op |-> "cmd", path |-> path, text |-> returncode]

\* The certificate oc adm ca create-server-cert writes for the host names:
\* an IP Address entry for a name with ':', a DNS entry for the others.
RECURSIVE SanFor(_)
SanFor(hs) ==
    IF hs = <<>> THEN <<>>
    ELSE <<Entry(IF \E i \in 1..Len(hs[1]) : hs[1][i] = ":"
                 THEN "IP Address" ELSE "DNS", hs[1])>> \o SanFor(Tail(hs))

\* CAServerCert.create: the backups, then the command, which ends with
\* returncode and, with returncode 0, has written the cert and the key.
cert_create(fs, p, hostnames, now, returncode) ==
    LET bk == p.backup /\ fs[p.key] # NoFile
        bc == p.backup /\ fs[p.cert] # NoFile
        fs1 == [n \in DOMAIN fs |->
                    IF bk /\ n = StampedName(p.key, now) THEN fs[p.key]
                    ELSE IF bc /\ n = StampedName(p.cert, now) THEN fs[p.cert]
                    ELSE fs[n]]
        log1 == (IF bk THEN <<Copied(StampedName(p.key, now), fs[p.key])>> ELSE <<>>)
                    \o (IF bc THEN <<Copied(StampedName(p.cert, now), fs[p.cert])>>
                        ELSE <<>>)
    IN  [returncode |-> returncode,
         fs |-> IF returncode = 0
                THEN [fs1 EXCEPT ![p.cert] = Certificate(SanFor(Split(hostnames, ","))),
                                 ![p.key] = NewKey]
                ELSE fs1,
         log |-> Append(log1, Ran(p.cert, returncode))]

\* The responses of CAServerCert.run_ansible.
WouldCreate ==
    [kind |-> "ok", changed |-> TRUE, result |-> NoFile, records |-> FALSE,
     msg |-> "CHECK_MODE: Would have created the certificate."]

CertAnswer(changed, result) ==
    [kind |-> "ok", changed |-> changed, result |-> result, records |-> FALSE,
     msg |-> ""]

CertFailed(msg) ==
    [kind |-> "failed", changed |-> FALSE, result |-> NoFile,
     records |-> FALSE, msg |-> msg]

\* CAServerCert.run_ansible(params, check_mode); returncode is what the
\* command ends with if it is run.
cert_run_ansible(fs, p, now, returncode) ==
    LET hostnames == Join(Strings(p.hostnames))
        c == cert_create(fs, p, hostnames, now, returncode)
    IN  IF p.state # "present"
        THEN [resp |-> CertFailed("Unknown state passed"), fs |-> fs, log |-> <<>>]
        ELSE IF ~cert_exists(fs, p.cert, hostnames) \/ p.force
        THEN IF p.check_mode
             THEN [resp |-> WouldCreate, fs |-> fs, log |-> <<>>]
             ELSE IF c.returncode # 0
             THEN [resp |-> CertFailed("api_rval"), fs |-> c.fs, log |-> c.log]
             ELSE [resp |-> CertAnswer(TRUE, c.fs[p.cert]), fs |-> c.fs,
                   log |-> c.log]
        ELSE [resp |-> CertAnswer(FALSE, cert_get(fs, p.cert)), fs |-> fs,
              log |-> <<>>]

\* The paths and the inputs of the certificate module.
CertPath == <<"crt">>

KeyPath == <<"key">>

CertPaths ==
    {CertPath, KeyPath}
        \cup {StampedName(n, t) : n \in {CertPath, KeyPath}, t \in 0..MaxClock}

\* Host names: two plain names, an IPv6 address, and the False of a
\* hostnames list whose YAML held a bare boolean.
Hosts ==
    {Str(<<"a">>), Str(<<"b">>), Str(<<"1", ":", "2">>), Bool(FALSE)}

HostLists == UNION {[1..n -> Hosts] : n \in 0..MaxHosts}

CertRequests ==
    [state : {"present"}, cert : {CertPath}, key : {KeyPath},
     hostnames : HostLists, force : BOOLEAN, backup : BOOLEAN,
     check_mode : BOOLEAN]

CertTexts ==
    {NoFile, NotCert, NoSan,
     Certificate(<<Entry("DNS", <<"a">>)>>),
     Certificate(<<Entry("DNS", <<"a">>), Entry("DNS", <<"b">>)>>),
     Certificate(<<Entry("DNS", <<"b">>), Entry("email", <<"x">>),
                   Entry("DNS", <<"a">>)>>),
     Certificate(<<Entry("IP Address", <<"1", ":", "2">>)>>),
     Certificate(<<Entry("DNS", <<"a">>),
                   Entry("IP Address", <<"1", ":", "2">>)>>)}

ReturnCodes == {0, 1}

CertInit ==
    /\ \E c \in CertTexts, k \in {NoFile, OldKey} :
           files = [n \in CertPaths |->
                        IF n = CertPath THEN c
                        ELSE IF n = KeyPath THEN k ELSE NoFile]
    /\ clock \in 0..MaxClock
    /\ params = BaseRequest
    /\ rpc = "idle"
    /\ resp = NoResp
    /\ fslog = <<>>

\* The module is run once.
CertRunAnsible ==
    /\ rpc = "idle"
    /\ \E p \in CertRequests, returncode \in ReturnCodes :
       \E o \in {cert_run_ansible(files, p, clock, returncode)} :
           /\ params' = p
           /\ rpc' = "done"
           /\ resp' = o.resp
           /\ files' = o.fs
           /\ fslog' = o.log
    /\ UNCHANGED <<clock, kvars, svars, wvars, bvars>>

(***************************************************************************)
(* Properties of the certificate module (specification SpecCert)           *)
(***************************************************************************)
\* The names of a certificate: what follows 'DNS:' or 'IP Address:' in the
\* entries of its Subject Alternative Name line.
SanNames(san) ==
    {SubSeq(san[i], 3, Len(san[i])) :
         i \in {j \in 1..Len(san) : san[j][1] \in {"DNS", "IP Address"}}}

\* The host names a request asks for.
Requested(p) == {Strings(p.hostnames)[i] : i \in 1..Len(Strings(p.hostnames))}

\* The cert file is a certificate whose names are exactly the requested
\* host names.
Matching(fs, p) ==
    /\ fs[p.cert].fmt = "cert"
    /\ SanNames(fs[p.cert].tree) = Requested(p)

\* The step ran the create-server-cert command.
RanCommand == \E i \in 1..Len(fslog') : fslog'[i].op = "cmd"

\* C25: in state present the command is run exactly when check mode is off
\* and force is set or no certificate with exactly the requested names is
\* there; the answer says changed=true exactly when force is set or no such
\* certificate is there; check mode runs nothing and leaves the files alone;
\* a command that ends with a non-zero return code gives a failed result.
C25_CreateIffNeeded ==
    [][ (rpc = "idle" /\ rpc' = "done" /\ params'.state = "present") =>
            LET need == params'.force \/ ~Matching(files, params')
            IN  /\ RanCommand <=> (~params'.check_mode /\ need)
                /\ resp'.kind = "ok" => (resp'.changed <=> need)
                /\ params'.check_mode => (~RanCommand /\ files' = files)
                /\ (\E i \in 1..Len(fslog') :
                        fslog'[i].op = "cmd" /\ fslog'[i].text # 0)
                       => resp'.kind = "failed" ]_vars

(***************************************************************************)
(* put and delete on documents that hold falsy values, None among them,    *)
(* and on documents that are no mapping.                                   *)
(***************************************************************************)
\* What a in {a: ...} holds in the documents.
ShapeHeld ==
    { Num(0), Bool(FALSE), Str(<<>>), EmptyList, Null, EmptyDict,
      Num(1), Str(<<"x">>), List(<<Num(1)>>), Bool(TRUE),
      Dict(kb :> Num(0)), Dict(kb :> Null),
      List(<<Num(0)>>), List(<<EmptyList>>), List(<<Num(1), Num(2)>>) }

ShapeDocs ==
    {Dict(ka :> x) : x \in ShapeHeld} \cup {EmptyDict, EmptyList, Num(0)}

ShapePaths ==
    { <<"a">>,
      <<"a", ".", "b">>,
      <<"a", ".", "b", ".", "c">>,
      <<"a", "[", "0", "]">>,
      <<"a", "[", "0", "]", ".", "b">>,
      <<"a", "[", "0", "]", ".", "b", ".", "c">>,
      <<"a", "[", "2", "]">>,
      <<"a", "[", "-", "3", "]">> }

ShapeValues == {Num(7), Null}

ShapeInit ==
    /\ yaml_dict \in ShapeDocs
    /\ last = NoCall(yaml_dict)
    /\ held = yaml_dict
    /\ nops = 0

PutShaped ==
    \E path \in ShapePaths, value \in ShapeValues :
    \E out \in {put(yaml_dict, path, value)} :
        Call("put", path, value, Null, Null, out, Null)

DeleteShaped ==
    \E path \in {<<"a">>, <<"a", ".", "b">>} :
    \E out \in {delete(yaml_dict, path, Null, Null)} :
        Call("delete", path, Null, Null, Null, out, Null)

(***************************************************************************)
(* Properties of put and delete on falsy values (specification SpecShape)  *)
(***************************************************************************)
\* From step i on, the path disagrees with the shape of the tree: a MapKey
\* step meets a node that is no mapping, or a ListIndex step meets a node
\* that is no sequence or an index the sequence does not have. A key that
\* is missing from its mapping, or holds a falsy value there, is no
\* disagreement: a mapping is made for it.
RECURSIVE ShapeConflict(_, _, _)
ShapeConflict(data, ks, i) ==
    IF ks[i].dk # <<>>
    THEN IF ~IsDict(data) THEN TRUE
         ELSE IF i = Len(ks) THEN FALSE
         ELSE ShapeConflict(IF /\ ks[i].dk \in DOMAIN data.v
                               /\ Truthy(data.v[ks[i].dk])
                            THEN data.v[ks[i].dk] ELSE EmptyDict, ks, i + 1)
    ELSE IF ~IsList(data) \/ ~InRange(data, ToInt(ks[i].ai)) THEN TRUE
         ELSE IF i = Len(ks) THEN FALSE
         ELSE ShapeConflict(data.v[Pos(data, ToInt(ks[i].ai))], ks, i + 1)

\* No sequence of post is longer than the sequence pre holds at its place.
RECURSIVE NoLonger(_, _)
NoLonger(pre, post) ==
    IF IsList(pre) /\ IsList(post)
    THEN /\ Len(post.v) <= Len(pre.v)
         /\ \A i \in 1..Len(post.v) : NoLonger(pre.v[i], post.v[i])
    ELSE IF IsDict(pre) /\ IsDict(post)
    THEN \A k \in DOMAIN pre.v \cap DOMAIN post.v : NoLonger(pre.v[k], post.v[k])
    ELSE TRUE

\* put of a value on a path that disagrees with the shape of the document.
ConflictCase ==
    /\ last.op = "put" /\ last.value # Null
    /\ StepsOf(last.path) # <<>>
    /\ ShapeConflict(last.pre, StepsOf(last.path), 1)

\* C26: a put whose path disagrees with the shape of the document raises
\* YeditException; no put ends with another exception, and no put makes a
\* sequence longer.
C26_ConflictIsTyped ==
    last.op = "put" =>
        /\ last.exc \in {"none", "YeditException"}
        /\ ConflictCase => last.exc = "YeditException"
        /\ NoLonger(last.pre, yaml_dict)


\* From step i on, an intermediate MapKey step addresses a key that its
\* mapping holds with a falsy value that is no mapping, the steps before it
\* agreeing with the tree.
RECURSIVE FalsyOnPath(_, _, _)
FalsyOnPath(data, ks, i) ==
    /\ i < Len(ks)
    /\ IF ks[i].dk # <<>>
       THEN /\ IsDict(data)
            /\ ks[i].dk \in DOMAIN data.v
            /\ IF Truthy(data.v[ks[i].dk])
               THEN FalsyOnPath(data.v[ks[i].dk], ks, i + 1)
               ELSE ~IsDict(data.v[ks[i].dk])
       ELSE /\ IsList(data)
            /\ InRange(data, ToInt(ks[i].ai))
            /\ FalsyOnPath(data.v[Pos(data, ToInt(ks[i].ai))], ks, i + 1)

\* From step i on, an intermediate MapKey step addresses a key that its
\* mapping holds with a truthy value that is no mapping, and the next step
\* does not index into that value as a sequence.
RECURSIVE TruthyOnPath(_, _, _)
TruthyOnPath(data, ks, i) ==
    /\ i < Len(ks)
    /\ IF ks[i].dk # <<>>
       THEN /\ IsDict(data)
            /\ ks[i].dk \in DOMAIN data.v
            /\ Truthy(data.v[ks[i].dk])
            /\ IF IsDict(data.v[ks[i].dk])
                  \/ (IsList(data.v[ks[i].dk]) /\ ks[i + 1].dk = <<>>)
               THEN TruthyOnPath(data.v[ks[i].dk], ks, i + 1)
               ELSE TRUE
       ELSE /\ IsList(data)
            /\ InRange(data, ToInt(ks[i].ai))
            /\ TruthyOnPath(data.v[Pos(data, ToInt(ks[i].ai))], ks, i + 1)

\* data with the value v at the end of the steps ks[i..], which agree with
\* its shape: a new mapping stands where a MapKey step found no key or a
\* falsy value, nothing else is touched.
RECURSIVE MadeOver(_, _, _, _)
MadeOver(data, ks, i, v) ==
    IF ks[i].dk # <<>>
    THEN IF i = Len(ks) THEN DictSet(data, ks[i].dk, v)
         ELSE DictSet(data, ks[i].dk,
                      MadeOver(IF /\ ks[i].dk \in DOMAIN data.v
                                  /\ Truthy(data.v[ks[i].dk])
                               THEN data.v[ks[i].dk] ELSE EmptyDict,
                               ks, i + 1, v))
    ELSE IF i = Len(ks) THEN ListSet(data, ToInt(ks[i].ai), v)
         ELSE ListSet(data, ToInt(ks[i].ai),
                      MadeOver(data.v[Pos(data, ToInt(ks[i].ai))], ks, i + 1, v))

\* put through a falsy value on a path that otherwise agrees with the shape
\* of the document.
FalsyCase ==
    /\ last.op = "put"
    /\ StepsOf(last.path) # <<>>
    /\ FalsyOnPath(last.pre, StepsOf(last.path), 1)
    /\ ~ShapeConflict(last.pre, StepsOf(last.path), 1)

FalsyDone ==
    /\ last.exc = "none"
    /\ last.changed
    /\ yaml_dict = MadeOver(last.pre, StepsOf(last.path), 1, last.value)

\* put through a truthy value that is no mapping.
TruthyCase ==
    /\ last.op = "put"
    /\ StepsOf(last.path) # <<>>
    /\ TruthyOnPath(last.pre, StepsOf(last.path), 1)

TruthyKept ==
    /\ ~last.changed
    /\ yaml_dict = last.pre
    /\ last.value # Null => last.exc = "YeditException"

\* C28 as stated: put through an intermediate key holding a falsy value that
\* is no mapping replaces the value by a new mapping and returns
\* changed=True, whatever the value put; a truthy value there is never
\* overwritten.
C28_FalsyReplacedAnyValue ==
    /\ FalsyCase => FalsyDone
    /\ TruthyCase => TruthyKept

\* C28 amended: the same, for every value put other than None.
C28_FalsyReplaced ==
    /\ (FalsyCase /\ last.value # Null) => FalsyDone
    /\ TruthyCase => TruthyKept

\* put of a.b = 7 on {a: 0} gives {a: {b: 7}}.
C28_Witness ==
    /\ last.op = "put" /\ last.pre = Dict(ka :> Num(0))
    /\ last.path = <<"a", ".", "b">> /\ last.value = Num(7)
    /\ last.changed /\ last.exc = "none"
    /\ yaml_dict = Dict(ka :> Dict(kb :> Num(7)))


\* The last step of ks[i..] is a MapKey whose key its mapping holds with the
\* value None, the steps before it agreeing with the tree.
RECURSIVE HoldsNullAt(_, _, _)
HoldsNullAt(data, ks, i) ==
    IF ks[i].dk # <<>>
    THEN /\ IsDict(data)
         /\ ks[i].dk \in DOMAIN data.v
         /\ IF i = Len(ks) THEN data.v[ks[i].dk] = Null
            ELSE HoldsNullAt(data.v[ks[i].dk], ks, i + 1)
    ELSE /\ i < Len(ks)
         /\ IsList(data)
         /\ InRange(data, ToInt(ks[i].ai))
         /\ HoldsNullAt(data.v[Pos(data, ToInt(ks[i].ai))], ks, i + 1)

\* The steps ks[i..] lead to nothing in the tree: a key is missing, an index
\* is not there, or a node has the wrong shape for its step.
RECURSIVE NothingAt(_, _, _)
NothingAt(data, ks, i) ==
    IF ks[i].dk # <<>>
    THEN \/ ~IsDict(data)
         \/ ks[i].dk \notin DOMAIN data.v
         \/ i < Len(ks) /\ NothingAt(data.v[ks[i].dk], ks, i + 1)
    ELSE \/ ~IsList(data)
         \/ ToInt(ks[i].ai) >= Len(data.v)
         \/ /\ i < Len(ks)
            /\ InRange(data, ToInt(ks[i].ai))
            /\ NothingAt(data.v[Pos(data, ToInt(ks[i].ai))], ks, i + 1)

\* delete on a path whose key holds None.
DeleteNullCase ==
    /\ last.op = "delete"
    /\ StepsOf(last.path) # <<>>
    /\ HoldsNullAt(last.pre, StepsOf(last.path), 1)

\* put of None on a path that leads to nothing.
PutNullCase ==
    /\ last.op = "put" /\ last.value = Null
    /\ StepsOf(last.path) # <<>>
    /\ NothingAt(last.pre, StepsOf(last.path), 1)

\* C29: a key whose value is None counts as absent: delete on its path
\* returns changed=False and the key stays; put of None on a path where
\* nothing exists returns changed=False and creates no key.
C29_NullIsAbsent ==
    /\ DeleteNullCase =>
           /\ last.exc = "none" /\ ~last.changed
           /\ yaml_dict = last.pre
           /\ HoldsNullAt(yaml_dict, StepsOf(last.path), 1)
    /\ PutNullCase =>
           /\ last.exc = "none" /\ ~last.changed
           /\ yaml_dict = last.pre

\* delete of a on {a: None} returns changed=False and keeps the key.
C29_Witness ==
    /\ last.op = "delete" /\ last.pre = Dict(ka :> Null)
    /\ last.path = <<"a">>
    /\ ~last.changed /\ last.exc = "none"
    /\ yaml_dict = Dict(ka :> Null)

(***************************************************************************)
(* Specifications                                                          *)
(***************************************************************************)
\* The document store.
Init == StoreInit /\ KeyIdle /\ FsIdle /\ BatchIdle /\ RunIdle

Next == Get \/ Put \/ Update \/ AppendOp \/ Pop \/ Delete \/ Exists

Spec == Init /\ [][Next]_vars

\* The key parser.
SpecKeyInit == KeyInit /\ StoreIdle /\ FsIdle /\ BatchIdle /\ RunIdle

SpecKeyNext == DoValidKey \/ DoParseKey

SpecKey == SpecKeyInit /\ [][SpecKeyNext]_vars

\* The write path.
SpecWriteInit == FsInit /\ KeyIdle /\ StoreIdle /\ BatchIdle /\ RunIdle

SpecWriteNext ==
    \/ \E w \in Writers : Open(w)
    \/ \E w \in Writers : Flock(w)
    \/ \E w \in Writers : Write(w)
    \/ \E w \in Writers : Unlock(w)
    \/ \E w \in Writers : Close(w)
    \/ \E w \in Writers : Rename(w)
    \/ Read

SpecWrite == SpecWriteInit /\ [][SpecWriteNext]_vars

\* The write path with every process scheduled: a process that can take a
\* step of _write takes it in the end.
SpecWriteFair ==
    /\ SpecWriteInit
    /\ [][SpecWriteNext]_vars
    /\ \A w \in Writers : WF_vars(WriterStep(w))

\* _write called by one process at a time; a call may be interrupted, and
\* a process may call again.
SpecWriteOneInit == FsInit /\ KeyIdle /\ StoreIdle /\ BatchIdle /\ RunIdle

SpecWriteOneNext ==
    \/ \E w \in Writers : Solo(w) /\ Open(w)
    \/ \E w \in Writers : Solo(w) /\ Flock(w)
    \/ \E w \in Writers : Solo(w) /\ Write(w)
    \/ \E w \in Writers : Solo(w) /\ Unlock(w)
    \/ \E w \in Writers : Solo(w) /\ Close(w)
    \/ \E w \in Writers : Solo(w) /\ Rename(w)
    \/ \E w \in Writers : Solo(w) /\ Interrupt(w)
    \/ \E w \in Writers : Solo(w) /\ Again(w)
    \/ Read

SpecWriteOne == SpecWriteOneInit /\ [][SpecWriteOneNext]_vars

\* process_edits.
SpecBatchInit ==
    /\ yaml_dict \in BatchDocs
    /\ last = NoCall(yaml_dict)
    /\ held = yaml_dict
    /\ nops = 0
    /\ KeyIdle /\ FsIdle /\ BatchInit /\ RunIdle

SpecBatchNext == ProcessEdit

SpecBatch == SpecBatchInit /\ [][SpecBatchNext]_vars

\* run_ansible on a source file, one request.
SpecRunInit == RunInit /\ StoreIdle /\ KeyIdle /\ FsIdle /\ BatchIdle

SpecRunNext == RunAnsible \/ ProcessEdit \/ RunAnsibleEnd

SpecRun == SpecRunInit /\ [][SpecRunNext]_vars

\* The certificate module, run once.
SpecCertInit == CertInit /\ StoreIdle /\ KeyIdle /\ FsIdle /\ BatchIdle

SpecCertNext == CertRunAnsible

SpecCert == SpecCertInit /\ [][SpecCertNext]_vars

\* put and delete on falsy values and on documents that are no mapping.
SpecShapeInit == ShapeInit /\ KeyIdle /\ FsIdle /\ BatchIdle /\ RunIdle

SpecShapeNext == PutShaped \/ DeleteShaped

SpecShape == SpecShapeInit /\ [][SpecShapeNext]_vars

====
